---- MODULE Spec2Model ----
(***************************************************************************)
(* GeoserverServer (geocatbridge/publish/geoserver.py): the publishing     *)
(* session of one server object against a remote GeoServer REST endpoint.  *)
(* Every public method is one action; the requests a call issues are       *)
(* recorded, in order, in the call record `last`.  The remote server is    *)
(* the environment: it answers each request, or fails it.                  *)
(***************************************************************************)
EXTENDS Integers, Sequences, FiniteSets, TLC

VARIABLES
    cfg,          \* constructor arguments and the QGIS project (fixed per behaviour)
    remote,       \* resources held by the remote server
    layersCache,  \* self._layersCache
    sess,         \* self._exportedLayers, _uploadedDatasets, _publishedLayers, ...
    last,         \* the call that ran last: requests, result, collaborator calls
    prev,         \* the call before it
    ncalls,       \* number of calls made so far
    nfaults,      \* number of requests the environment has failed so far
    ui            \* the ServerConnectionsWidget: registry, list, current server, form

vars == <<cfg, remote, layersCache, sess, last, prev, ncalls, nfaults, ui>>

----------------------------------------------------------------------------
(* Bounds of the model *)

MaxCalls == 3
MaxFaults == 1

(* Storage strategies, geoserver.py:27-29 *)
FILE_BASED == 0
POSTGIS_MANAGED_BY_BRIDGE == 1
POSTGIS_MANAGED_BY_GEOSERVER == 2

----------------------------------------------------------------------------
(* Values *)

Names == {"a", "b"}

\* The project file name as its '.'-separated parts; <<>> is an unsaved project.
SavedProject == <<"proj", "qgz">>

\* os.path.splitext(os.path.basename(path))[0]: the last '.'-part is the
\* extension and is dropped; a name without '.' is kept whole.
splitext0(parts) ==
    IF Len(parts) > 1 THEN SubSeq(parts, 1, Len(parts) - 1) ELSE parts

_workspace(c) ==
    IF c.project # <<>> THEN splitext0(c.project) ELSE <<>>

Bool(b) == IF b THEN "True" ELSE "False"

\* dict helpers
EmptyMap == [k \in {} |-> ""]

Put(f, k, v) == [x \in DOMAIN f \cup {k} |-> IF x = k THEN v ELSE f[x]]

NoBody == [name |-> "", style |-> "", bbox |-> <<>>, items |-> <<>>]

\* Tile-layer descriptors are sequences of XML tokens.
MimeTag == "<mimeFormats>"

VtString == "<string>application/vnd.mapbox-vector-tile</string>"

\* The descriptor a server gives a new tile layer: image formats only, the
\* vector-tile format included, or no format at all.
DefaultXml == <<"<GeoServerLayer>", MimeTag, "<string>image/png</string>",
                "</mimeFormats>", "</GeoServerLayer>">>

VtXml == <<"<GeoServerLayer>", MimeTag, VtString, "<string>image/png</string>",
           "</mimeFormats>", "</GeoServerLayer>">>

BareXml == <<"<GeoServerLayer>", "<mimeFormats/>", "</GeoServerLayer>">>

EmptyRemote ==
    [workspaces |-> {}, layers |-> {}, styles |-> {}, stores |-> {},
     fts |-> {}, bound |-> {}, groups |-> {}, tiles |-> EmptyMap,
     gwcDefault |-> DefaultXml, version |-> <<2, 14, 0>>, strict |-> FALSE]

\* A call in progress: the object's state, the remote, and what the call did.
Machine(c, r, lc, s) ==
    [cfg |-> c, remote |-> r, cache |-> lc, sess |-> s,
     reqs |-> <<>>, raised |-> "", ret |-> "None",
     exports |-> <<>>, imports |-> <<>>, errors |-> <<>>, asked |-> 0,
     answers |-> <<>>, files |-> <<>>]

----------------------------------------------------------------------------
(* Transport: ServerBase.request *)

\* The environment's answers to the requests of one call: the position (in
\* the call's request sequence) it fails, or the position where a list
\* response comes without the category key (an empty collection).  A call
\* meets at most one such answer, and only while the budget k lasts.
Answers(n, k) ==
    {[fail |-> {}, nokey |-> {}]}
        \cup (IF k > 0
              THEN {[fail |-> {i}, nokey |-> {}] : i \in 1..n}
                     \cup {[fail |-> {}, nokey |-> {i}] : i \in 1..n}
              ELSE {})

NFaults(oc) == Cardinality(oc.fail) + Cardinality(oc.nokey \ oc.fail)

Out(m, oc) ==
    LET i == Len(m.reqs) + 1
    IN  IF i \in oc.fail THEN "fail" ELSE IF i \in oc.nokey THEN "nokey" ELSE "ok"

\* A URL is <<endpoint, name, sub-name>>; the workspace part of a URL is always
\* self._workspace and is left out.
Url(res, name, sub) == <<res, name, sub>>

\* The descriptor of the tile layer of a group.
TileXml(r, name) == IF name \in DOMAIN r.tiles THEN r.tiles[name] ELSE r.gwcDefault

\* r.text of an answered request, for the requests whose text is read.
Response(r, method, url) ==
    IF method = "get" /\ url[1] = "gwc" THEN TileXml(r, url[2])
    ELSE IF method = "get" /\ url[1] = "version.json" THEN r.version
    ELSE <<>>

\* What a request that the server accepted does to the remote resources.
Effect(r, method, url, body) ==
    LET res == url[1]
        name == url[2]
    IN
    CASE method = "delete" /\ res = "workspace" ->
            [EmptyRemote EXCEPT !.workspaces = r.workspaces \ {body.items},
                                !.gwcDefault = r.gwcDefault,
                                !.version = r.version,
                                !.strict = r.strict]
      [] method = "post" /\ res = "workspaces" ->
            [r EXCEPT !.workspaces = @ \cup {body.items}]
      [] method = "delete" /\ res = "layer" ->
            [r EXCEPT !.layers = @ \ {name},
                      !.fts = {f \in @ : f[2] # name},
                      !.bound = {b \in @ : b[1] # name}]
      [] method \in {"post", "put"} /\ res \in {"styles", "style"} ->
            [r EXCEPT !.styles = @ \cup {name}]
      [] method = "delete" /\ res = "style" ->
            [r EXCEPT !.styles = @ \ {name},
                      !.bound = {b \in @ : b[2] # name}]
      [] method = "delete" /\ res = "datastore" ->
            [r EXCEPT !.stores = @ \ {name},
                      !.fts = {f \in @ : f[1] # name},
                      !.layers = @ \ {f[2] : f \in {g \in r.fts : g[1] = name}}]
      [] method = "put" /\ res = "file.gpkg" ->
            [r EXCEPT !.stores = @ \cup {name},
                      !.fts = @ \cup {<<name, body.name>>},
                      !.layers = @ \cup {body.name}]
      [] method \in {"post", "put"} /\ res \in {"featuretypes", "featuretype"} ->
            [r EXCEPT !.fts = @ \cup {<<name, body.name>>},
                      !.layers = @ \cup {body.name}]
      [] method = "post" /\ res = "datastores" ->
            [r EXCEPT !.stores = @ \cup {body.name}]
      [] method = "post" /\ res = "import" ->
            [r EXCEPT !.fts = @ \cup {<<name, url[3]>>},
                      !.layers = @ \cup {url[3]}]
      [] method = "put" /\ res = "file.geotiff" ->
            [r EXCEPT !.stores = @ \cup {name}, !.layers = @ \cup {name}]
      [] method = "put" /\ res = "layer" ->
            [r EXCEPT !.bound = {b \in @ : b[1] # name} \cup {<<name, body.style>>}]
      [] method = "delete" /\ res = "layergroup" ->
            [r EXCEPT !.groups = {g \in @ : g.name # name},
                      !.tiles = [x \in DOMAIN @ \ {name} |-> @[x]]]
      [] method \in {"post", "put"} /\ res = "layergroups" ->
            [r EXCEPT !.groups = {g \in @ : g.name # body.name}
                                    \cup {[name |-> body.name, items |-> body.items]},
                      !.tiles = IF body.name \in DOMAIN @ THEN @
                                ELSE Put(@, body.name, r.gwcDefault)]
      [] method = "put" /\ res = "gwc" ->
            [r EXCEPT !.tiles = Put(@, name, body.items)]
      [] OTHER -> r

\* A server that refuses to create what exists already (the case the
\* except branch of geoserver.py:340-348 is written for) answers such a POST
\* with an error status.
Rejects(r, method, url, body) ==
    /\ r.strict
    /\ method = "post"
    /\ \/ url[1] = "featuretypes" /\ body.name \in r.layers
       \/ url[1] = "datastores" /\ body.name \in r.stores

\* self.request(url, data, method): the request is recorded; a failed one
\* raises, an answered one has its effect on the remote.
Req(m, oc, method, url, body) ==
    IF m.raised # "" THEN m
    ELSE IF Rejects(m.remote, method, url, body) /\ Out(m, oc) # "fail"
    THEN [m EXCEPT !.reqs = Append(@, [method |-> method, url |-> url, body |-> body,
                                       out |-> "rejected", resp |-> <<>>]),
                   !.raised = "RequestError"]
    ELSE IF Out(m, oc) = "fail"
    THEN [m EXCEPT !.reqs = Append(@, [method |-> method, url |-> url, body |-> body,
                                       out |-> "fail", resp |-> <<>>]),
                   !.raised = "RequestError"]
    ELSE [m EXCEPT !.reqs = Append(@, [method |-> method, url |-> url, body |-> body,
                                       out |-> Out(m, oc),
                                       resp |-> Response(m.remote, method, url)]),
                   !.remote = Effect(@, method, url, body)]

\* r.json()[key]: a response without the key raises.
KeyCheck(m1, nokey) ==
    IF m1.raised = "" /\ nokey THEN [m1 EXCEPT !.raised = "KeyError"] ELSE m1

\* r = self.request(...); r.json()[key]
ReqJson(m, oc, method, url, body) ==
    KeyCheck(Req(m, oc, method, url, body), m.raised = "" /\ Out(m, oc) = "nokey")

GetJson(m, oc, url) == ReqJson(m, oc, "get", url, NoBody)

\* try: ... except: pass
Swallow(m) == [m EXCEPT !.raised = ""]

Try(m, body) == IF m.raised # "" THEN m ELSE Swallow(body)

\* self.logError(msg), errors.add(msg): the message, and how many requests the
\* call had sent when it was reported.
AddError(m, msg) ==
    IF m.raised # "" THEN m
    ELSE [m EXCEPT !.errors = Append(@, [msg |-> msg, at |-> Len(m.reqs)])]

\* return v
Ret(m, v) == IF m.raised # "" THEN m ELSE [m EXCEPT !.ret = v]

----------------------------------------------------------------------------
(* Existence cache *)

\* _clearCache, geoserver.py:461-462
_clearCache(m) ==
    IF m.raised # "" THEN m ELSE [m EXCEPT !.cache = [tag |-> "None", items |-> {}]]

\* The names the server lists for a category.
Listed(r, category) ==
    CASE category = "layer" -> r.layers
      [] category = "style" -> r.styles
      [] category = "workspace" -> r.workspaces
      [] category = "dataStore" -> r.stores

\* Mutant: every category is answered from the cache.
useCache_any(m, category) == m.cache.tag # "None"

\* geoserver.py:466: only the layer category is answered from the cache.
useCache(m, category) == category = "layer" /\ m.cache.tag # "None"

\* geoserver.py:468-477: the answer read from the response m1 received.
_existsAnswer(m1, out, category, name, items) ==
    IF m1.raised # "" THEN m1
    ELSE IF out = "nokey" THEN [m1 EXCEPT !.ret = "False"]
    ELSE IF category = "layer"
         THEN [m1 EXCEPT !.cache = [tag |-> "list", items |-> items],
                         !.ret = Bool(name \in items)]
         ELSE [m1 EXCEPT !.ret = Bool(name \in items)]

\* The try block of _exists, geoserver.py:466-477.  The result is left in ret.
_existsBody(m, oc, res, category, name) ==
    IF useCache(m, category)
    THEN [m EXCEPT !.ret = Bool(name \in m.cache.items)]
    ELSE _existsAnswer(Req(m, oc, "get", Url(res, "", ""), NoBody), Out(m, oc),
                       category, name, Listed(m.remote, category))

\* geoserver.py:478-479: except: return False
ExceptFalse(b) ==
    IF b.raised # "" THEN [b EXCEPT !.raised = "", !.ret = "False"] ELSE b

\* Mutant: the try block without its except clause.
_exists_noexcept(m, oc, res, category, name) ==
    IF m.raised # "" THEN m ELSE _existsBody(m, oc, res, category, name)

\* _exists, geoserver.py:464-479: any exception of the try block gives False.
_exists(m, oc, res, category, name) ==
    IF m.raised # "" THEN m ELSE ExceptFalse(_existsBody(m, oc, res, category, name))

layerExists(m, oc, name) == _exists(m, oc, "layers.json", "layer", name)

styleExists(m, oc, name) == _exists(m, oc, "styles.json", "style", name)

workspaceExists(m, oc) ==
    _exists(m, oc, "workspaces.json", "workspace", _workspace(m.cfg))

datastoreExists(m, oc, name) == _exists(m, oc, "datastores.json", "dataStore", name)

\* geoserver.py:522-525, after the probe
deleteLayer_if(m1, oc, name) ==
    IF m1.raised = "" /\ m1.ret = "True"
    THEN Ret(Req(m1, oc, "delete", Url("layer", name, ""), NoBody), "None")
    ELSE Ret(m1, "None")

\* deleteLayer, geoserver.py:521-525
deleteLayer(m, oc, name) == deleteLayer_if(layerExists(m, oc, name), oc, name)

\* Mutant: the workspace is probed but never deleted.
deleteWorkspace_keep(m, oc) == Ret(workspaceExists(m, oc), "None")

\* geoserver.py:567-570, after the probe
deleteWorkspace_if(m1, oc) ==
    IF m1.raised = "" /\ m1.ret = "True"
    THEN Ret(_clearCache(Req(m1, oc, "delete", Url("workspace", "", ""),
                             [NoBody EXCEPT !.items = _workspace(m1.cfg)])), "None")
    ELSE Ret(m1, "None")

\* deleteWorkspace, geoserver.py:566-570
deleteWorkspace(m, oc) == deleteWorkspace_if(workspaceExists(m, oc), oc)

\* geoserver.py:617-620, after the probe
_ensureWorkspaceExists_if(m1, oc) ==
    IF m1.raised = "" /\ m1.ret = "False"
    THEN Ret(Req(m1, oc, "post", Url("workspaces", "", ""),
                 [NoBody EXCEPT !.items = _workspace(m1.cfg)]), "None")
    ELSE Ret(m1, "None")

\* _ensureWorkspaceExists, geoserver.py:616-620
_ensureWorkspaceExists(m, oc) == _ensureWorkspaceExists_if(workspaceExists(m, oc), oc)

----------------------------------------------------------------------------
(* Session *)

NoSession ==
    [set |-> FALSE, exported |-> EmptyMap, uploaded |-> EmptyMap, published |-> {},
     postgisDatastoreExists |-> FALSE]

\* geoserver.py:73-76
prepareForPublishing_reset(m2) ==
    IF m2.raised # "" THEN m2 ELSE [m2 EXCEPT !.sess = [NoSession EXCEPT !.set = TRUE]]

\* prepareForPublishing, geoserver.py:69-76
\* Mutant: the workspace is deleted whatever onlySymbology is.
prepareForPublishing_wipe(m, oc, onlySymbology) ==
    prepareForPublishing_reset(_ensureWorkspaceExists(deleteWorkspace(m, oc), oc))

prepareForPublishing(m, oc, onlySymbology) ==
    prepareForPublishing_reset(
        _ensureWorkspaceExists(IF ~onlySymbology THEN deleteWorkspace(m, oc) ELSE m, oc))

----------------------------------------------------------------------------
(* QGIS layers and the collaborators that turn them into files *)

\* Coordinates are integers counting units of 10^-(5+ExtraDigits).
ExtraDigits == 2

RECURSIVE Pow10(_)
Pow10(n) == IF n = 0 THEN 1 ELSE 10 * Pow10(n - 1)

Unit == Pow10(ExtraDigits)

LayerA == [name |-> "a", source |-> "s1", type |-> "vector", featureCount |-> 3,
           provider |-> "ogr", extent |-> <<-149, 250, 7, 1051>>]
LayerB == [name |-> "b", source |-> "s1", type |-> "vector", featureCount |-> 3,
           provider |-> "ogr", extent |-> <<-150, 350, -251, 99>>]
LayerE == [name |-> "e", source |-> "s2", type |-> "vector", featureCount |-> 0,
           provider |-> "ogr", extent |-> <<0, 0, 0, 0>>]
LayerP == [name |-> "p", source |-> "s3", type |-> "vector", featureCount |-> 1,
           provider |-> "postgres", extent |-> <<100, 200, 300, 400>>]
LayerR == [name |-> "r", source |-> "s4", type |-> "raster", featureCount |-> 0,
           provider |-> "gdal", extent |-> <<1, 2, 3, 4>>]

Layers == {LayerA, LayerB, LayerE, LayerP, LayerR}

\* exportLayer(layer, fields, ...): the interchange file written for a source.
exportLayer(layer, toShapefile) ==
    CASE layer.type = "raster" -> "s4.tif"
      [] toShapefile -> IF layer.source = "s1" THEN "s1.shp"
                        ELSE IF layer.source = "s2" THEN "s2.shp" ELSE "s3.shp"
      [] OTHER -> IF layer.source = "s1" THEN "s1.gpkg"
                  ELSE IF layer.source = "s2" THEN "s2.gpkg" ELSE "s3.gpkg"

\* os.path.splitext(path)[0] + ".zip", geoserver.py:160-161
ZipName(path) ==
    IF path = "s1.shp" THEN "s1.zip" ELSE IF path = "s2.shp" THEN "s2.zip" ELSE "s3.zip"

\* os.path.splitext(os.path.basename(filename))[0], geoserver.py:331
BaseName(filename) ==
    IF filename = "s1.zip" THEN "s1" ELSE IF filename = "s2.zip" THEN "s2" ELSE "s3"

\* SELECT table_name FROM gpkg_geometry_columns, geoserver.py:229-232
TableName(filename) ==
    IF filename = "s1.gpkg" THEN "t1" ELSE IF filename = "s2.gpkg" THEN "t2" ELSE "t3"

----------------------------------------------------------------------------
(* Style publisher *)

\* Mutant: the style is always created.
styleMethod_post(exists) == "post"

\* geoserver.py:574-580
styleMethod(exists) == IF exists = "True" THEN "put" ELSE "post"

\* geoserver.py:577, 579
styleUrl(method, name) ==
    IF method = "put" THEN Url("style", name, "") ELSE Url("styles", name, "")

\* with open(filename, "w") as f: f.write(content): the files a call writes,
\* each with the number of requests sent before it.
WriteFile(m, name, content) ==
    IF m.raised # "" THEN m
    ELSE [m EXCEPT !.files = Append(@, [name |-> name, content |-> content,
                                        at |-> Len(m.reqs)])]

\* f.read(): what was last written to the file; nothing for a file the call
\* did not write.
ReadFile(m, name) ==
    IF \E i \in 1..Len(m.files) : m.files[i].name = name
    THEN m.files[CHOOSE i \in 1..Len(m.files) :
                    /\ m.files[i].name = name
                    /\ \A j \in (i + 1)..Len(m.files) : m.files[j].name # name].content
    ELSE <<>>

\* geoserver.py:583-585 and 593-595: f.read() of styleFilename
styleBody(m2, ext) ==
    IF ext = ".mapbox" THEN ReadFile(m2, "style.mapbox") ELSE <<>>

\* geoserver.py:575-601, after the probe
_publishStyle_send(m2, oc, name, ext) ==
    IF m2.raised = "" /\ ext \in {".zip", ".mapbox"}
    THEN Ret(Req(m2, oc, styleMethod(m2.ret), styleUrl(styleMethod(m2.ret), name),
                 [NoBody EXCEPT !.style = ext, !.items = styleBody(m2, ext)]), "None")
    ELSE Ret(m2, "None")

\* _publishStyle, geoserver.py:572-601
_publishStyle(m, oc, name, ext) ==
    _publishStyle_send(styleExists(_ensureWorkspaceExists(m, oc), oc, name), oc, name, ext)

\* publishStyle, geoserver.py:134-143
publishStyle(m, oc, layer) ==
    IF ~m.sess.set THEN [m EXCEPT !.raised = "AttributeError"]
    ELSE _publishStyle([m EXCEPT !.sess.published = @ \cup {layer.name}],
                       oc, layer.name, ".zip")

\* The workspace name as one string, its parts joined by '.'.
RECURSIVE Joined(_)
Joined(parts) ==
    IF parts = <<>> THEN ""
    ELSE IF Len(parts) = 1 THEN parts[1]
    ELSE parts[1] \o "." \o Joined(Tail(parts))

\* publishMapboxGLStyle, geoserver.py:128-131
publishMapboxGLStyle(m, oc) ==
    _publishStyle(m, oc, "mb_" \o Joined(_workspace(m.cfg)), ".mapbox")

\* uploadResource, geoserver.py:102-106
uploadResource(m, oc, file, content) ==
    Req(m, oc, "put", Url("resource", file, ""), [NoBody EXCEPT !.items = content])

\* The URL given to the constructor, split at '/'.
ServerUrl == <<"http://host:8080", "geoserver", "rest">>

\* baseUrl, geoserver.py:217-218
baseUrl == SubSeq(ServerUrl, 1, Len(ServerUrl) - 1)

\* resources/openlayers/index.html of the plugin
IndexHtml == <<"<html>", "olms", "</html>">>

\* geoserver.py:92: the script that applies the style
previewScript(style) == [var |-> "style", value |-> style, apply |-> "olms.apply"]

\* geoserver.py:94-100, after the style file was read
_publishOpenLayersPreview_upload(m2, oc) ==
    uploadResource(uploadResource(m2, oc, "index.html", IndexHtml),
                   oc, "mapbox.js", ReadFile(m2, "mapbox.js"))

\* _publishOpenLayersPreview, geoserver.py:88-100
_publishOpenLayersPreview(m, oc) ==
    _publishOpenLayersPreview_upload(
        WriteFile(WriteFile(m, "mapbox.js", previewScript(ReadFile(m, "style.mapbox"))),
                  "index.html", IndexHtml),
        oc)

\* A Mapbox style document: its sources by name, and the rest of it.
StyleDoc(names, type) ==
    [sources |-> [n \in names |-> [type |-> type, data |-> n]],
     rest |-> [version |-> 8, layers |-> names]]

\* What layerStylesAsMapboxFolder may write for the published layers.
StyleDocs(published) ==
    {StyleDoc(names, type) : names \in SUBSET published, type \in {"geojson", "raster"}}

\* geoserver.py:114-118: the WMTS tile URL template of a source
tileUrl(m, name) ==
    [service |-> baseUrl \o <<"gwc", "service", "wmts">>,
     LAYER |-> <<_workspace(m.cfg), name>>,
     TILEMATRIX |-> "EPSG:900913:{z}",
     TILEMATRIXSET |-> "EPSG:900913",
     FORMAT |-> "application/vnd.mapbox-vector-tile"]

\* Mutant: the source keeps its type and gets the tiles.
sourcedef_keep(m, name, old) ==
    [type |-> old.type, tiles |-> <<tileUrl(m, name)>>, minZoom |-> 0, maxZoom |-> 14]

\* geoserver.py:119-124
sourcedef(m, name, old) ==
    [type |-> "vector", tiles |-> <<tileUrl(m, name)>>, minZoom |-> 0, maxZoom |-> 14]

\* geoserver.py:112-125: the document with every source replaced
editedDoc(m, mapbox) ==
    [mapbox EXCEPT !.sources = [n \in DOMAIN @ |-> sourcedef(m, n, @[n])]]

\* _editMapboxFiles, geoserver.py:108-126
_editMapboxFiles(m) ==
    WriteFile(m, "style.mapbox", editedDoc(m, ReadFile(m, "style.mapbox")))

\* Mutant: the style is published as generated and rewritten afterwards.
closePublishing_late(m, oc, generated) ==
    IF ~m.cfg.useVectorTiles THEN Ret(m, "None")
    ELSE IF ~m.sess.set THEN [m EXCEPT !.raised = "AttributeError"]
    ELSE Ret(_publishOpenLayersPreview(
                _editMapboxFiles(
                    publishMapboxGLStyle(WriteFile(m, "style.mapbox", generated), oc)),
                oc), "None")

\* closePublishing, geoserver.py:78-86; generated is the document that
\* layerStylesAsMapboxFolder writes into the folder.
closePublishing(m, oc, generated) ==
    IF ~m.cfg.useVectorTiles THEN Ret(m, "None")
    ELSE IF ~m.sess.set THEN [m EXCEPT !.raised = "AttributeError"]
    ELSE Ret(_publishOpenLayersPreview(
                publishMapboxGLStyle(
                    _editMapboxFiles(WriteFile(m, "style.mapbox", generated)), oc),
                oc), "None")

\* Mutant: the layer is fetched but its default style is not written.
_setLayerStyle_get(m, oc, layername, stylename) ==
    GetJson(m, oc, Url("layer", layername, ""))

\* _setLayerStyle, geoserver.py:605-614
_setLayerStyle(m, oc, layername, stylename) ==
    Req(GetJson(m, oc, Url("layer", layername, "")), oc, "put",
        Url("layer", layername, ""), [NoBody EXCEPT !.style = stylename])

\* geoserver.py:457-459, after the probe
deleteStyle_if(m1, oc, name) ==
    IF m1.raised = "" /\ m1.ret = "True"
    THEN Ret(Req(m1, oc, "delete", Url("style", name, ""), NoBody), "None")
    ELSE Ret(m1, "None")

\* deleteStyle, geoserver.py:456-459
deleteStyle(m, oc, name) == deleteStyle_if(styleExists(m, oc, name), oc, name)

----------------------------------------------------------------------------
(* Workspace/datastore reconciler *)

\* _deleteDatastore, geoserver.py:514-519
_deleteDatastore(m, oc, name) ==
    Try(m, Req(m, oc, "delete", Url("datastore", name, ""), NoBody))

\* Mutant: the coordinates are cut off after the fifth digit.
round5_floor(x) == (x \div Unit) * Unit

\* round(x, 5) on a value with ExtraDigits more digits: the nearest multiple of
\* Unit, an exact tie going to the even one.
round5(x) ==
    IF 2 * (x % Unit) < Unit THEN (x \div Unit) * Unit
    ELSE IF 2 * (x % Unit) > Unit THEN ((x \div Unit) + 1) * Unit
    ELSE IF (x \div Unit) % 2 = 0 THEN (x \div Unit) * Unit
    ELSE ((x \div Unit) + 1) * Unit

\* The nativeBoundingBox written at geoserver.py:241-248
nativeBoundingBox(layer) ==
    <<round5(layer.extent[1]), round5(layer.extent[2]),
      round5(layer.extent[3]), round5(layer.extent[4])>>

\* The nativeBoundingBox of the feature type the server configured from the
\* data, as returned at geoserver.py:237-238 and 336-337.
templateBoundingBox(layer) == layer.extent

\* The URL of the template feature type, geoserver.py:234-236 and 333-335
featureTypeUrl(m, filename) ==
    Url("featuretype", m.sess.uploaded[filename][1], m.sess.uploaded[filename][2])

\* Mutant: the upload is recorded whether or not its requests succeeded.
recordUpload_always(u, filename, dataset) ==
    [u EXCEPT !.sess.uploaded = Put(@, filename, dataset)]

\* geoserver.py:233 and 332
recordUpload(u, filename, dataset) ==
    IF u.raised # "" THEN u ELSE [u EXCEPT !.sess.uploaded = Put(@, filename, dataset)]

\* geoserver.py:224-233
fromFile_upload(m, oc, name, filename) ==
    IF m.raised # "" \/ filename \in DOMAIN m.sess.uploaded THEN m
    ELSE recordUpload(Req(_deleteDatastore(m, oc, name), oc, "put",
                          Url("file.gpkg", name, ""),
                          [NoBody EXCEPT !.name = TableName(filename)]),
                      filename, <<name, TableName(filename)>>)

\* Mutant: POST for a dataset uploaded by this call, PUT for a reused one.
fromFile_send_swapped(m2, oc, url, ft, isDataUploaded) ==
    IF isDataUploaded
    THEN Req(m2, oc, "put", url, ft)
    ELSE Req(m2, oc, "post", Url("featuretypes", url[2], ""), ft)

\* geoserver.py:249-253
fromFile_send(m2, oc, url, ft, isDataUploaded) ==
    IF isDataUploaded
    THEN Req(m2, oc, "post", Url("featuretypes", url[2], ""), ft)
    ELSE Req(m2, oc, "put", url, ft)

\* geoserver.py:234-255
fromFile_featureType(m1, oc, layer, filename, isDataUploaded) ==
    IF m1.raised # "" THEN m1
    ELSE _setLayerStyle(
            fromFile_send(GetJson(m1, oc, featureTypeUrl(m1, filename)), oc,
                          featureTypeUrl(m1, filename),
                          [NoBody EXCEPT !.name = layer.name,
                                         !.bbox = nativeBoundingBox(layer)],
                          isDataUploaded),
            oc, layer.name, layer.name)

\* _publishVectorLayerFromFile, geoserver.py:220-255
_publishVectorLayerFromFile(m, oc, layer, filename) ==
    fromFile_featureType(fromFile_upload(m, oc, layer.name, filename), oc, layer,
                         filename, filename \in DOMAIN m.sess.uploaded)

\* _publishVectorLayerFromPostgis, geoserver.py:257-292
_publishVectorLayerFromPostgis(m, oc, layer) ==
    _setLayerStyle(
        Req(Req(m, oc, "post", Url("datastores", "", ""),
                [NoBody EXCEPT !.name = layer.name]),
            oc, "post", Url("featuretypes", layer.name, ""),
            [NoBody EXCEPT !.name = layer.name]),
        oc, layer.name, layer.name)

\* Mutant: the datastore is created whatever the probe answered.
createPostgisDatastore_always(m1, oc, ws, name) ==
    Ret(Req(GetJson(m1, oc, Url("datastore.json", name, ws)), oc, "post",
            Url("datastores", "", ""), [NoBody EXCEPT !.name = name]), "None")

\* geoserver.py:194-203, after the probe
createPostgisDatastore_if(m1, oc, ws, name) ==
    IF m1.raised = "" /\ m1.ret = "False"
    THEN Ret(Req(GetJson(m1, oc, Url("datastore.json", name, ws)), oc, "post",
                 Url("datastores", "", ""), [NoBody EXCEPT !.name = name]), "None")
    ELSE Ret(m1, "None")

\* createPostgisDatastore, geoserver.py:192-203
createPostgisDatastore(m, oc) ==
    IF m.raised # "" THEN m
    ELSE IF Len(m.cfg.postgisdb) # 2 THEN [m EXCEPT !.raised = "ValueError"]
    ELSE createPostgisDatastore_if(datastoreExists(m, oc, m.cfg.postgisdb[2]), oc,
                                   m.cfg.postgisdb[1], m.cfg.postgisdb[2])

\* The import job, geoserver.py:300-332
toPostgis_import(m0, oc, filename, datastoreName) ==
    IF m0.raised # "" \/ filename \in DOMAIN m0.sess.uploaded THEN m0
    ELSE recordUpload(
            Req(Req(ReqJson(ReqJson(m0, oc, "post", Url("imports", "", ""),
                                    [NoBody EXCEPT !.name = datastoreName]),
                            oc, "post", Url("tasks", filename, ""), NoBody),
                    oc, "put", Url("target", datastoreName, ""), NoBody),
                oc, "post", Url("import", datastoreName, BaseName(filename)), NoBody),
            filename, <<datastoreName, BaseName(filename)>>)

\* Mutant: no except branch, the failed POST propagates.
toPostgis_except_raise(m3, oc, url, ft) == m3

\* geoserver.py:347-348: except: PUT
toPostgis_except(m3, oc, url, ft) ==
    IF m3.raised # "" THEN Req(Swallow(m3), oc, "put", url, ft) ELSE m3

\* geoserver.py:340-348
toPostgis_send(m2, oc, url, ft) ==
    IF m2.raised # "" THEN m2
    ELSE toPostgis_except(Req(m2, oc, "post", Url("featuretypes", url[2], ""), ft),
                          oc, url, ft)

\* geoserver.py:333-350
toPostgis_featureType(m1, oc, layer, filename) ==
    IF m1.raised # "" THEN m1
    ELSE _setLayerStyle(
            toPostgis_send(GetJson(m1, oc, featureTypeUrl(m1, filename)), oc,
                           featureTypeUrl(m1, filename),
                           [NoBody EXCEPT !.name = layer.name,
                                          !.bbox = templateBoundingBox(layer)]),
            oc, layer.name, layer.name)

\* _publishVectorLayerFromFileToPostgis, geoserver.py:294-350
_publishVectorLayerFromFileToPostgis(m, oc, layer, filename) ==
    toPostgis_featureType(
        toPostgis_import(createPostgisDatastore(m, oc), oc, filename,
                         IF Len(m.cfg.postgisdb) = 2 THEN m.cfg.postgisdb[2] ELSE ""),
        oc, layer, filename)

\* _publishRasterLayer, geoserver.py:352-359
_publishRasterLayer(m, oc, filename, layername) ==
    _setLayerStyle(
        Req(_ensureWorkspaceExists(m, oc), oc, "put",
            Url("file.geotiff", layername, ""), NoBody),
        oc, layername, layername)

\* Mutant: the export cache is never hit.
isExported_never(m, layer) == FALSE

\* geoserver.py:157 and 185
isExported(m, layer) == layer.source \in DOMAIN m.sess.exported

\* The file exportLayer writes for the layer, zipped for the import job,
\* geoserver.py:158-169 and 186-187
exportedFile(m, layer) ==
    IF layer.type = "vector" /\ m.cfg.storage = POSTGIS_MANAGED_BY_GEOSERVER
    THEN ZipName(exportLayer(layer, TRUE))
    ELSE exportLayer(layer, FALSE)

\* geoserver.py:157-169 and 185-187
export(m, layer) ==
    IF isExported(m, layer) THEN m
    ELSE [m EXCEPT !.exports = Append(@, layer.source),
                   !.sess.exported = Put(@, layer.source, exportedFile(m, layer))]

\* geoserver.py:170-174 and 188-189
publishFile(e, oc, layer, filename) ==
    IF layer.type = "raster" THEN _publishRasterLayer(e, oc, filename, layer.name)
    ELSE IF e.cfg.storage = FILE_BASED
         THEN _publishVectorLayerFromFile(e, oc, layer, filename)
         ELSE _publishVectorLayerFromFileToPostgis(e, oc, layer, filename)

\* Mutant: a layer without features is published like any other.
hasNoFeatures_never(layer) == FALSE

\* geoserver.py:147
hasNoFeatures(layer) == layer.featureCount = 0

\* Mutant: every database name is found.
isRegistered_always(m) == TRUE

\* allServers()[self.postgisdb] raises no KeyError, geoserver.py:176-179
isRegistered(m) == m.cfg.postgisdb \in m.cfg.servers

\* db.importLayer(layer, fields), geoserver.py:182: the layer is loaded into
\* the database; the call is recorded with the number of requests sent so far.
importLayer(m, layer) ==
    IF m.raised # "" THEN m
    ELSE [m EXCEPT !.imports = Append(@, [layer |-> layer.name, at |-> Len(m.reqs)])]

\* Mutant: the layer is loaded into the database after it was published.
fromBridge_late(m, oc, layer) ==
    importLayer(_publishVectorLayerFromPostgis(m, oc, layer), layer)

\* geoserver.py:182-183
fromBridge(m, oc, layer) ==
    _publishVectorLayerFromPostgis(importLayer(m, layer), oc, layer)

\* publishLayer, geoserver.py:145-190
publishLayer(m, oc, layer) ==
    IF layer.type = "vector"
    THEN IF hasNoFeatures(layer)
         THEN AddError(m, "Layer contains zero features and cannot be published")
         ELSE IF layer.provider = "postgres" /\ m.cfg.useOriginalDataSource
         THEN _clearCache(_publishVectorLayerFromPostgis(m, oc, layer))
         ELSE IF m.cfg.storage \in {FILE_BASED, POSTGIS_MANAGED_BY_GEOSERVER}
         THEN IF ~m.sess.set THEN [m EXCEPT !.raised = "AttributeError"]
              ELSE _clearCache(publishFile(export(m, layer), oc, layer,
                                           export(m, layer).sess.exported[layer.source]))
         ELSE IF m.cfg.storage = POSTGIS_MANAGED_BY_BRIDGE
         THEN IF ~isRegistered(m)
              THEN [m EXCEPT !.raised = "Exception"]
              ELSE _clearCache(fromBridge(m, oc, layer))
         ELSE _clearCache(m)
    ELSE IF ~m.sess.set THEN [m EXCEPT !.raised = "AttributeError"]
         ELSE _clearCache(publishFile(export(m, layer), oc, layer,
                                      export(m, layer).sess.exported[layer.source]))

----------------------------------------------------------------------------
(* Layer groups *)

\* A group as QGIS hands it over: the entries of its layers list are layer
\* names or groups (dicts).
Leaf(name) == [kind |-> "layer", name |-> name, layers |-> <<>>, sprites |-> FALSE]

Group(name, children, sprites) ==
    [kind |-> "group", name |-> name, layers |-> children, sprites |-> sprites]

\* geoserver.py:398-408: the sprite sheet resources
_publishGroupMapBox_sprites(m3, oc, sprites) ==
    IF m3.raised = "" /\ sprites
    THEN Req(Req(Req(Req(m3, oc, "put", Url("resource", "spriteSheet.png", ""), NoBody),
                     oc, "put", Url("resource", "spriteSheet@2x.png", ""), NoBody),
                 oc, "put", Url("resource", "spriteSheet.json", ""), NoBody),
             oc, "put", Url("resource", "spriteSheet@2x.json", ""), NoBody)
    ELSE m3

\* Mutant: the style is never deleted before it is created.
_publishGroupMapBox_keep(m2, oc, name) == m2

\* geoserver.py:375-377, after the probe
_publishGroupMapBox_if(m2, oc, name) ==
    IF m2.raised = "" /\ m2.ret = "True" THEN deleteStyle(m2, oc, name) ELSE m2

\* _publishGroupMapBox, geoserver.py:365-409
_publishGroupMapBox(m, oc, group) ==
    Ret(_publishGroupMapBox_sprites(
            Req(Req(_publishGroupMapBox_if(
                        styleExists(_ensureWorkspaceExists(m, oc), oc, group.name),
                        oc, group.name),
                    oc, "post", Url("styles", group.name, ""),
                    [NoBody EXCEPT !.style = "mbstyle"]),
                oc, "put", Url("style", group.name, "raw"),
                [NoBody EXCEPT !.style = ".mapbox"]),
            oc, group.sprites),
        "None")

\* geoserver.py:422-427: the entry of the publishables list for a child
publishable(ws, child) ==
    [type |-> IF child.kind = "group" THEN "layerGroup" ELSE "layer",
     name |-> <<ws, child.name>>]

\* "text" in xml
Contains(xml, text) == \E i \in 1..Len(xml) : xml[i] = text

\* xml.replace(old, new), new being a sequence of tokens
RECURSIVE replace(_, _, _)
replace(xml, old, new) ==
    IF xml = <<>> THEN <<>>
    ELSE (IF Head(xml) = old THEN new ELSE <<Head(xml)>>) \o replace(Tail(xml), old, new)

\* geoserver.py:448-451, after the GET of the descriptor
_publishGroup_patch(m4, oc, name) ==
    IF m4.raised = "" /\ ~Contains(m4.reqs[Len(m4.reqs)].resp, VtString)
    THEN Req(m4, oc, "put", Url("gwc", name, ""),
             [NoBody EXCEPT !.items = replace(m4.reqs[Len(m4.reqs)].resp, MimeTag,
                                              <<MimeTag, VtString>>)])
    ELSE m4

\* Mutant: no except branch, the failed POST propagates.
_publishGroup_except_raise(m3, oc, groupdef) == m3

\* geoserver.py:441-443: except: PUT
_publishGroup_except(m3, oc, groupdef) ==
    IF m3.raised # ""
    THEN Req(Swallow(m3), oc, "put", Url("layergroups", "", ""), groupdef)
    ELSE m3

\* geoserver.py:435-451, after the loop over the children
_publishGroup_send(m2, oc, group, groupdef) ==
    IF m2.raised # "" THEN m2
    ELSE Ret(_publishGroup_patch(
                Req(_publishGroup_except(
                        Req(Try(m2, Req(m2, oc, "delete",
                                        Url("layergroup", group.name, ""), NoBody)),
                            oc, "post", Url("layergroups", "", ""), groupdef),
                        oc, groupdef),
                    oc, "get", Url("gwc", group.name, ""), NoBody),
                oc, group.name),
             "None")

RECURSIVE _publishGroup(_, _, _, _)
RECURSIVE _publishGroup_children(_, _, _, _)

\* geoserver.py:422-427: the loop over group["layers"], from child i on.  The
\* call for a child group passes one argument.
_publishGroup_children(m1, oc, group, i) ==
    IF m1.raised # "" \/ i > Len(group.layers) THEN m1
    ELSE _publishGroup_children(
            IF group.layers[i].kind = "group"
            THEN _publishGroup(m1, oc, group.layers[i], 1)
            ELSE m1,
            oc, group, i + 1)

\* _publishGroup(self, group, qgis_layers), geoserver.py:419-454, called with
\* nargs arguments: a call without qgis_layers is a TypeError.
_publishGroup(m, oc, group, nargs) ==
    IF m.raised # "" THEN m
    ELSE IF nargs < 2 THEN [m EXCEPT !.raised = "TypeError"]
    ELSE _publishGroup_send(
            _publishGroup_children(_publishGroupMapBox(m, oc, group), oc, group, 1),
            oc, group,
            [NoBody EXCEPT !.name = group.name,
                           !.items = [i \in 1..Len(group.layers) |->
                                        publishable(_workspace(m.cfg), group.layers[i])]])

\* createGroups, geoserver.py:361-363, from group i on
RECURSIVE createGroups_from(_, _, _, _)
createGroups_from(m, oc, groups, i) ==
    IF m.raised # "" \/ i > Len(groups) THEN m
    ELSE createGroups_from(_publishGroup(m, oc, groups[i], 2), oc, groups, i + 1)

\* createGroups, geoserver.py:361-363
createGroups(m, oc, groups) == createGroups_from(m, oc, groups, 1)

----------------------------------------------------------------------------
(* Pre-publish validation *)

\* Mutant: the layer list is asked for with a POST.
layers_post(m, oc) == Req(m, oc, "post", Url("layers.json", "", ""), NoBody)

\* layers, geoserver.py:485-492: the request
layers(m, oc) == Req(m, oc, "get", Url("layers.json", "", ""), NoBody)

\* layers, geoserver.py:488-492: the names returned for the request m is about
\* to send
layersReturned(m, oc) == IF Out(m, oc) = "nokey" THEN {} ELSE m.remote.layers

\* Mutant: any remote layer counts as a layer to delete.
willDelete_compare_any(m2, listed, toPublish) == Ret(m2, Bool(listed # {}))

\* geoserver.py:505-506
willDelete_compare(m2, listed, toPublish) == Ret(m2, Bool(listed \ toPublish # {}))

\* geoserver.py:503-508, after the probe
willDelete_if(m1, oc, toPublish) ==
    IF m1.raised = "" /\ m1.ret = "True"
    THEN willDelete_compare(layers(m1, oc), layersReturned(m1, oc), toPublish)
    ELSE Ret(m1, "False")

\* willDeleteLayersOnPublication, geoserver.py:502-508
willDeleteLayersOnPublication(m, oc, toPublish) ==
    willDelete_if(workspaceExists(m, oc), oc, toPublish)

\* A part of a version string that int() rejects.
NaN == -1

\* The 'GeoServer' resource is missing from the version answer.
NoVersion == <<>>

\* The '.'-separated parts of the version the server reports.
Versions ==
    {NoVersion, <<2, 13, 2>>, <<2, 14, 0>>, <<2, 15>>, <<3, 5, 0>>, <<1, 20, 0>>,
     <<2, NaN, 0>>}

\* geoserver.py:661-669: the version is found, splits in three parts, and its
\* minor part is an integer not above 13.
isOld(ver) == ver # NoVersion /\ Len(ver) = 3 /\ ver[2] # NaN /\ ver[2] <= 13

\* geoserver.py:658-673, after the request
checkMinGeoserverVersion_read(m1, out, ver) ==
    IF m1.raised # "" \/ out = "nokey"
    THEN AddError(Swallow(m1), "Could not connect to Geoserver")
    ELSE IF isOld(ver)
         THEN AddError(m1, "Geoserver 2.14.0 or later is required")
         ELSE m1

\* checkMinGeoserverVersion, geoserver.py:654-673
checkMinGeoserverVersion(m, oc, ver) ==
    IF m.raised # "" THEN m
    ELSE Ret(checkMinGeoserverVersion_read(
                Req(m, oc, "get", Url("version.json", "", ""), NoBody), Out(m, oc), ver),
             "None")

\* geoserver.py:676-678
validate_saved(m) ==
    IF m.cfg.project = <<>> THEN AddError(m, "QGIS Project is not saved") ELSE m

\* Mutant: no workspace name is found to contain a '.'.
hasDot_never(ws) == FALSE

\* "." in self._workspace, geoserver.py:679
hasDot(ws) == Len(ws) > 1

\* geoserver.py:679-681
validate_name(m) ==
    IF hasDot(_workspace(m.cfg))
    THEN AddError(m, "QGIS project name contains unsupported characters ('.')")
    ELSE m

\* geoserver.py:682-687, after willDeleteLayersOnPublication
validate_ask(m1, answer) ==
    IF m1.raised = "" /\ m1.ret = "True"
    THEN IF answer = "No"
         THEN AddError([m1 EXCEPT !.asked = @ + 1, !.answers = Append(@, answer)],
                       "Cannot overwrite existing workspace")
         ELSE [m1 EXCEPT !.asked = @ + 1, !.answers = Append(@, answer)]
    ELSE m1

\* validateGeodataBeforePublication, geoserver.py:675-688
validateGeodataBeforePublication(m, oc, toPublish, answer, ver) ==
    checkMinGeoserverVersion(
        validate_ask(
            willDeleteLayersOnPublication(validate_name(validate_saved(m)), oc, toPublish),
            answer),
        oc, ver)

----------------------------------------------------------------------------
(* GeoserverServer.__init__: the stored url.  A url is a sequence of the    *)
(* pieces "/", "rest" and "h" (any text without '/' that does not end in    *)
(* 'rest'), the empty sequence being the empty string.                      *)

\* The longest url typed in, in pieces.
MaxUrlLen == 5

Pieces == {"/", "rest", "h"}

\* The urls typed in: "h" and at most MaxUrlLen - 1 pieces after it.
Urls == {<<"h">> \o t : t \in UNION {[1..n -> Pieces] : n \in 0..(MaxUrlLen - 1)}}

\* str.strip("/"), geoserver.py:46
strip(url) ==
    LET kept == {i \in 1..Len(url) : url[i] # "/"}
    IN  IF kept = {} THEN <<>>
        ELSE SubSeq(url, CHOOSE i \in kept : \A j \in kept : i <= j,
                         CHOOSE i \in kept : \A j \in kept : i >= j)

\* url.endswith("rest"), geoserver.py:45
endswith(url, piece) == Len(url) > 0 /\ url[Len(url)] = piece

\* geoserver.py:44-50
restUrl(url) ==
    IF url # <<>>
    THEN IF endswith(url, "rest") THEN strip(url) ELSE strip(url) \o <<"/", "rest">>
    ELSE url

\* GeoserverServer(name, url, authid), geoserver.py:31-59
GeoserverServer(name, url, authid) ==
    [name |-> name, url |-> restUrl(url), authid |-> authid]

----------------------------------------------------------------------------
(* ServerConnectionsWidget (geocatbridge/ui/serverconnectionswidget.py).    *)
(* A server name is <<text, n>>, read text followed by the digits of n; the *)
(* empty name is <<>>.  The items of listServers are the sequence of their  *)
(* labels, and an item is its row (0: no item).                             *)

\* The number of items the list can hold.
MaxItems == 3

\* None as a server
None == [name |-> <<"None">>, url |-> <<>>, authid |-> ""]

\* The widget before any server is defined: nothing registered, nothing
\* listed, the empty page shown.  op, res, bar and raised record the handler
\* that ran last, the answers the user has ready for its dialogs, the answers
\* given, the message pushed, the exception on its way up, the exception that
\* left a slot (reported by the exception hook) and the value returned by
\* saveCurrentServer.
NoWidget ==
    [servers |-> [n \in {} |-> None], items |-> <<>>, row |-> 0,
     currentServer |-> None, currentServerHasChanges |-> FALSE,
     form |-> [name |-> <<>>, url |-> <<>>, authid |-> ""],
     op |-> "", answers |-> <<>>, res |-> <<>>, bar |-> "", raised |-> "",
     logged |-> "", ret |-> TRUE]

\* addServer of geocatbridge.publish.servers
addServer(w, server) == [w EXCEPT !.servers = Put(@, server.name, server)]

\* removeServer of geocatbridge.publish.servers: del _servers[name]
removeServer(w, name) ==
    IF w.raised # "" THEN w
    ELSE IF name \notin DOMAIN w.servers THEN [w EXCEPT !.raised = "KeyError"]
    ELSE [w EXCEPT !.servers = [n \in DOMAIN @ \ {name} |-> @[n]]]

\* setCurrentServer, serverconnectionswidget.py:453-506
setCurrentServer(w, server) ==
    IF w.raised # "" THEN w
    ELSE IF server = None
    THEN [w EXCEPT !.currentServer = None, !.currentServerHasChanges = FALSE]
    ELSE [w EXCEPT !.currentServer = server,
                   !.form = [name |-> server.name, url |-> server.url,
                             authid |-> server.authid],
                   !.currentServerHasChanges = FALSE]

\* createGeoserverServer, serverconnectionswidget.py:263-283 (the text fields
\* are read without the blanks around them, which the urls and names of the
\* model do not have)
createGeoserverServer(w) ==
    IF w.form.authid = "" \/ w.form.name = <<>> \/ w.form.url = <<>>
    THEN None
    ELSE GeoserverServer(w.form.name, w.form.url, w.form.authid)

\* itemFromServerName, serverconnectionswidget.py:257-261
itemFromServerName(w, name) ==
    LET found == {i \in 1..Len(w.items) : w.items[i] = name}
    IN  IF found = {} THEN 0 ELSE CHOOSE i \in found : \A j \in found : i <= j

\* itemWidget(item).setServerName(name), serverconnectionswidget.py:252, 552-553
setServerName(w, item, name) ==
    IF w.raised # "" THEN w
    ELSE IF item = 0 THEN [w EXCEPT !.raised = "AttributeError"]
    ELSE [w EXCEPT !.items[item] = name]

\* serverconnectionswidget.py:249-252: the registry entry of the current
\* server is removed and its item is relabelled
saveCurrentServer_replace(w, server) ==
    setServerName(removeServer(w, w.currentServer.name),
                  itemFromServerName(w, w.currentServer.name), server.name)

\* serverconnectionswidget.py:253-255
saveCurrentServer_add(w1, server) ==
    IF w1.raised # "" THEN w1
    ELSE [addServer(w1, server) EXCEPT !.currentServer = server, !.ret = TRUE]

\* saveCurrentServer, serverconnectionswidget.py:231-255: the result is in
\* ret.  The page shown is the empty one exactly when currentServer is None.
saveCurrentServer(w) ==
    IF w.raised # "" THEN w
    ELSE IF w.currentServer = None THEN [w EXCEPT !.ret = TRUE]
    ELSE IF createGeoserverServer(w) = None THEN [w EXCEPT !.ret = FALSE]
    ELSE saveCurrentServer_add(saveCurrentServer_replace(w, createGeoserverServer(w)),
                               createGeoserverServer(w))

\* self.bar.pushMessage
pushMessage(w, msg) == IF w.raised # "" THEN w ELSE [w EXCEPT !.bar = msg]

\* QMessageBox.question: the user gives the next answer
question(w) == [w EXCEPT !.res = Append(@, Head(w.answers)), !.answers = Tail(@)]

\* A slot called by a signal: an exception that leaves it is reported and
\* the code that emitted the signal goes on.
Slot(w1) == IF w1.raised # "" THEN [w1 EXCEPT !.logged = w1.raised, !.raised = ""] ELSE w1

RECURSIVE currentServerChanged(_, _, _)

\* QListWidget.setCurrentItem: currentItemChanged(item, previous) is emitted
\* when the current item changes, and currentServerChanged is its slot.
setCurrentItem(w, item) ==
    IF w.raised # "" \/ item = w.row THEN w
    ELSE Slot(currentServerChanged([w EXCEPT !.row = item], item, w.row))

\* serverconnectionswidget.py:194-198, after saveCurrentServer
currentServerChanged_saved(w1, server, old) ==
    IF w1.raised # "" THEN w1
    ELSE IF ~w1.ret
    THEN setCurrentItem(pushMessage(w1, "Wrong values in current item"), old)
    ELSE setCurrentServer(w1, server)

\* serverconnectionswidget.py:193-202, after the question
currentServerChanged_res(w1, res, server, old) ==
    IF res = "Yes" THEN currentServerChanged_saved(saveCurrentServer(w1), server, old)
    ELSE IF res = "Cancel" THEN setCurrentItem(w1, old)
    ELSE setCurrentServer(w1, server)

\* currentServerChanged, serverconnectionswidget.py:179-204
currentServerChanged(w, new, old) ==
    IF w.raised # "" THEN w
    ELSE IF new = 0 THEN setCurrentServer(w, None)
    ELSE IF w.items[new] \notin DOMAIN w.servers THEN [w EXCEPT !.raised = "KeyError"]
    ELSE IF w.currentServer # None
            /\ w.servers[w.items[new]].name = w.currentServer.name
    THEN w
    ELSE IF ~w.currentServerHasChanges
    THEN setCurrentServer(w, w.servers[w.items[new]])
    ELSE IF w.answers = <<>> THEN [w EXCEPT !.raised = "unanswered"]
    ELSE currentServerChanged_res(question(w), Head(w.answers),
                                  w.servers[w.items[new]], old)

\* addServerItem, serverconnectionswidget.py:407-414: the new item is the
\* last row
addServerItem(w, server) ==
    IF w.raised # "" THEN w ELSE [w EXCEPT !.items = Append(@, server.name)]

RECURSIVE getNewName(_, _, _)

\* getNewName, serverconnectionswidget.py:508-516
getNewName(w, name, i) ==
    IF <<name, i>> \notin DOMAIN w.servers THEN <<name, i>>
    ELSE getNewName(w, name, i + 1)

\* serverconnectionswidget.py:420-425
_addServer_new(w, server) ==
    setCurrentItem(addServerItem(setCurrentServer(addServer(w, server), server), server),
                   Len(w.items) + 1)

\* _addServer, serverconnectionswidget.py:416-425
_addServer(w, name) ==
    IF w.currentServerHasChanges
    THEN pushMessage(w, "Save changes to current server before creating one")
    ELSE _addServer_new(w, GeoserverServer(getNewName(w, name, 1), <<>>, ""))

\* The row Qt makes current when the current row is about to be removed:
\* the one above it, else the one below it, else none.
neighbour(w, row) == IF row > 1 THEN row - 1 ELSE IF Len(w.items) > row THEN row + 1 ELSE 0

\* The list after row is removed; the current row follows its item, and no
\* item is current if it was the removed one.
removed(w1, row) ==
    [w1 EXCEPT !.items = SubSeq(@, 1, row - 1) \o SubSeq(@, row + 1, Len(@)),
               !.row = IF @ = row THEN 0 ELSE IF @ > row THEN @ - 1 ELSE @]

\* QListWidget.takeItem of the current row: the current item changes (and
\* the signal is emitted) before the row is removed.
takeItem(w, row) ==
    IF w.raised # "" THEN w
    ELSE removed(setCurrentItem(w, neighbour(w, row)), row)

\* buttonRemoveClicked, serverconnectionswidget.py:390-398
buttonRemoveClicked(w) ==
    IF w.row = 0 THEN w
    ELSE setCurrentItem(takeItem(removeServer(w, w.items[w.row]), w.row), 0)

\* saveButtonClicked, serverconnectionswidget.py:518-522
saveButtonClicked_if(w1) ==
    IF w1.raised # "" THEN w1
    ELSE IF w1.ret THEN [w1 EXCEPT !.currentServerHasChanges = FALSE]
    ELSE pushMessage(w1, "Wrong values in current item")

saveButtonClicked(w) == saveButtonClicked_if(saveCurrentServer(w))

RECURSIVE loadServers(_, _, _)

\* loadServers, serverconnectionswidget.py:96-105: the servers of the file,
\* from the i-th on
loadServers(w, servers, i) ==
    IF i > Len(servers) THEN w
    ELSE IF servers[i].name \notin DOMAIN w.servers
    THEN loadServers(addServer(addServerItem(w, servers[i]), servers[i]), servers, i + 1)
    ELSE loadServers(w, servers, i + 1)

\* _setCurrentServerHasChanges, serverconnectionswidget.py:450-451, as the
\* slot of the text fields: the user has typed form
textChanged(w, form) == [w EXCEPT !.form = form, !.currentServerHasChanges = TRUE]

----------------------------------------------------------------------------
(* Calls: each public method is one action *)

NoCall ==
    [op |-> "", arg |-> "", reqs |-> <<>>, raised |-> "", ret |-> "None",
     exports |-> <<>>, imports |-> <<>>, errors |-> <<>>, asked |-> 0,
     answers |-> <<>>, files |-> <<>>, exported |-> {}]

Start == Machine(cfg, remote, layersCache, sess)

\* The call op(arg) ran to its end (returned or raised) and left machine m.
\* The record keeps what the call did and the sources the session had
\* exported when it began.
Commit(op, arg, m) ==
    /\ remote' = m.remote
    /\ layersCache' = m.cache
    /\ sess' = m.sess
    /\ last' = [op |-> op, arg |-> arg, reqs |-> m.reqs, raised |-> m.raised,
                ret |-> m.ret, exports |-> m.exports, imports |-> m.imports,
                errors |-> m.errors, asked |-> m.asked, answers |-> m.answers,
                files |-> m.files,
                exported |-> DOMAIN sess.exported]
    /\ prev' = last
    /\ ncalls' = ncalls + 1
    /\ UNCHANGED <<cfg, ui>>

\* The environment answering every request of a call.
Quiet == [fail |-> {}, nokey |-> {}]

\* The answers the fault budget still allows for a call that sends the
\* requests reqs when all are answered: a call runs as the answered one up to
\* the position of the first other answer.
Budget(reqs) == Answers(Len(reqs), MaxFaults - nfaults)

\* The requests whose response body the caller reads: every GET, and the two
\* POSTs of the import job (geoserver.py:316-317, 320-321).
Read(reqs) ==
    {i \in 1..Len(reqs) :
        reqs[i].method = "get" \/ reqs[i].url[1] \in {"imports", "tasks"}}

\* One call: op(arg) ran under the answers oc and left machine m.
Call(op, arg, oc, m) ==
    /\ ncalls < MaxCalls
    /\ oc.fail \subseteq 1..Len(m.reqs)
    /\ oc.nokey \subseteq Read(m.reqs)
    /\ Commit(op, arg, m)
    /\ nfaults' = nfaults + NFaults(oc)

LayerExists ==
    \E n \in Names :
        \E oc \in Budget(layerExists(Start, Quiet, n).reqs) :
            Call("layerExists", n, oc, layerExists(Start, oc, n))

StyleExists ==
    \E n \in Names :
        \E oc \in Budget(styleExists(Start, Quiet, n).reqs) :
            Call("styleExists", n, oc, styleExists(Start, oc, n))

WorkspaceExists ==
    \E oc \in Budget(workspaceExists(Start, Quiet).reqs) :
        Call("workspaceExists", "", oc, workspaceExists(Start, oc))

DatastoreExists ==
    \E n \in Names :
        \E oc \in Budget(datastoreExists(Start, Quiet, n).reqs) :
            Call("datastoreExists", n, oc, datastoreExists(Start, oc, n))

DeleteLayer ==
    \E n \in Names :
        \E oc \in Budget(deleteLayer(Start, Quiet, n).reqs) :
            Call("deleteLayer", n, oc, deleteLayer(Start, oc, n))

DeleteWorkspace ==
    \E oc \in Budget(deleteWorkspace(Start, Quiet).reqs) :
        Call("deleteWorkspace", "", oc, deleteWorkspace(Start, oc))

PrepareForPublishing ==
    \E onlySymbology \in BOOLEAN :
        \E oc \in Budget(prepareForPublishing(Start, Quiet, onlySymbology).reqs) :
            Call("prepareForPublishing", Bool(onlySymbology), oc,
                 prepareForPublishing(Start, oc, onlySymbology))

\* publishStyle reads nothing of a layer but its name.
PublishStyle ==
    \E layer \in {LayerA, LayerB} :
        \E oc \in Budget(publishStyle(Start, Quiet, layer).reqs) :
            Call("publishStyle", layer.name, oc, publishStyle(Start, oc, layer))

PublishLayer ==
    \E layer \in Layers :
        \E oc \in Budget(publishLayer(Start, Quiet, layer).reqs) :
            Call("publishLayer", layer.name, oc, publishLayer(Start, oc, layer))

ClosePublishing ==
    \E generated \in StyleDocs(sess.published) :
        \E oc \in Budget(closePublishing(Start, Quiet, generated).reqs) :
            Call("closePublishing", "", oc, closePublishing(Start, oc, generated))

\* The sets of layer names handed over as toPublish.
ToPublish == [none |-> {}, a |-> {"a"}, ab |-> {"a", "b"}]

ValidateGeodataBeforePublication ==
    \E id \in DOMAIN ToPublish, answer \in {"Yes", "No"} :
        \E oc \in Budget(validateGeodataBeforePublication(
                            Start, Quiet, ToPublish[id], answer, remote.version).reqs) :
            Call("validateGeodataBeforePublication", id, oc,
                 validateGeodataBeforePublication(Start, oc, ToPublish[id], answer,
                                                  remote.version))

\* The group trees handed to createGroups.
Nested == Group("G", <<Leaf("L1"), Group("G2", <<Leaf("L2")>>, FALSE)>>, FALSE)

Flat == Group("F", <<Leaf("L1"), Leaf("L2")>>, TRUE)

Single == Group("H", <<Leaf("L1")>>, FALSE)

GroupLists == [nested |-> <<Nested>>, flat |-> <<Flat>>, two |-> <<Single, Single>>]

CreateGroups ==
    \E id \in DOMAIN GroupLists :
        \E oc \in Budget(createGroups(Start, Quiet, GroupLists[id]).reqs) :
            Call("createGroups", id, oc, createGroups(Start, oc, GroupLists[id]))

----------------------------------------------------------------------------
(* Specifications *)

Ws == _workspace([project |-> SavedProject])

\* A workspace ws left by an earlier publication of layer a.
Published(ws) ==
    [EmptyRemote EXCEPT !.workspaces = {ws}, !.layers = {"a"}, !.styles = {"a"},
                        !.stores = {"a"}, !.fts = {<<"a", "a">>}, !.bound = {<<"a", "a">>}]

PublishedRemote == Published(Ws)

Config(storage, postgisdb, servers, useOriginalDataSource) ==
    [storage |-> storage, postgisdb |-> postgisdb, servers |-> servers,
     useOriginalDataSource |-> useOriginalDataSource, useVectorTiles |-> FALSE,
     project |-> SavedProject]

Configs ==
    {Config(FILE_BASED, <<>>, {}, u) : u \in BOOLEAN}
        \cup {Config(POSTGIS_MANAGED_BY_GEOSERVER, <<"pgws", "pgstore">>, {}, FALSE)}
        \cup {Config(POSTGIS_MANAGED_BY_BRIDGE, <<"db">>, s, u) :
                 s \in {{}, {<<"db">>}}, u \in BOOLEAN}

\* __init__, geoserver.py:31-59
Constructed ==
    /\ layersCache = [tag |-> "dict", items |-> {}]
    /\ sess = NoSession
    /\ last = NoCall
    /\ prev = NoCall
    /\ ncalls = 0
    /\ nfaults = 0
    /\ ui = NoWidget

\* The existence probes and the calls that change what they answer.
Init ==
    /\ cfg \in {Config(POSTGIS_MANAGED_BY_BRIDGE, <<"db">>, {<<"db">>}, FALSE),
                Config(FILE_BASED, <<>>, {}, FALSE)}
    /\ remote \in {EmptyRemote, PublishedRemote}
    /\ Constructed

Next ==
    \/ LayerExists
    \/ StyleExists
    \/ WorkspaceExists
    \/ DatastoreExists
    \/ DeleteLayer
    \/ DeleteWorkspace
    \/ PrepareForPublishing
    \/ PublishLayer

Spec == Init /\ [][Next]_vars

\* A publishing session, under every storage strategy.
InitPublish ==
    /\ cfg \in Configs
    /\ remote \in {EmptyRemote, PublishedRemote}
    /\ Constructed

NextPublish ==
    \/ PrepareForPublishing
    \/ PublishStyle
    \/ PublishLayer

SpecPublish == InitPublish /\ [][NextPublish]_vars

\* Publishing again, against a server that accepts a second creation of the
\* same resource and against one that refuses it.
InitRepublish ==
    /\ cfg \in Configs
    /\ remote \in {[r EXCEPT !.strict = b] :
                      r \in {EmptyRemote, PublishedRemote}, b \in BOOLEAN}
    /\ Constructed

NextRepublish ==
    \/ PrepareForPublishing
    \/ PublishLayer

SpecRepublish == InitRepublish /\ [][NextRepublish]_vars

\* Project files: not saved, saved, and saved under a name with a '.' in it.
Projects == {<<>>, SavedProject, <<"my", "v2", "qgz">>}

\* Validation before a publication: every kind of project file name against
\* a server of a supported version, and a saved project against every version.
InitValidate ==
    /\ cfg \in {[Config(FILE_BASED, <<>>, {}, FALSE) EXCEPT !.project = p] : p \in Projects}
    /\ remote \in {[r EXCEPT !.version = ver] :
                      r \in {EmptyRemote, Published(_workspace(cfg))}, ver \in Versions}
    /\ cfg.project = SavedProject \/ remote.version = EmptyRemote.version
    /\ Constructed

NextValidate ==
    \/ ValidateGeodataBeforePublication
    \/ PrepareForPublishing
    \/ DeleteWorkspace

SpecValidate == InitValidate /\ [][NextValidate]_vars

\* Whole sessions, from prepareForPublishing to closePublishing, with and
\* without vector tiles.
InitSession ==
    /\ cfg \in {[Config(FILE_BASED, <<>>, {}, FALSE) EXCEPT !.useVectorTiles = v] :
                   v \in BOOLEAN}
    /\ remote \in {EmptyRemote, PublishedRemote}
    /\ Constructed

NextSession ==
    \/ PrepareForPublishing
    \/ PublishStyle
    \/ PublishLayer
    \/ LayerExists
    \/ ClosePublishing

SpecSession == InitSession /\ [][NextSession]_vars

\* Group publication, against servers of each default tile-layer descriptor.
InitGroups ==
    /\ cfg = Config(FILE_BASED, <<>>, {}, FALSE)
    /\ remote \in {[r EXCEPT !.gwcDefault = xml] :
                      r \in {EmptyRemote, PublishedRemote},
                      xml \in {DefaultXml, VtXml, BareXml}}
    /\ Constructed

NextGroups ==
    \/ CreateGroups
    \/ PrepareForPublishing

SpecGroups == InitGroups /\ [][NextGroups]_vars

\* Groups published against a server with the default tile-layer descriptor.
InitGroupStyles ==
    /\ cfg = Config(FILE_BASED, <<>>, {}, FALSE)
    /\ remote \in {EmptyRemote, PublishedRemote}
    /\ Constructed

NextGroupStyles ==
    \/ CreateGroups
    \/ PrepareForPublishing

SpecGroupStyles == InitGroupStyles /\ [][NextGroupStyles]_vars

----------------------------------------------------------------------------
(* The widget: each handler the user can trigger is one action *)

\* The answers the user has ready for the dialogs of one handler.
MaxDialogs == 2

Answers3 == UNION {[1..n -> {"Yes", "No", "Cancel"}] : n \in 0..MaxDialogs}

\* The names the user types, and the forms typed in: a complete one under
\* each name, and one without a name.
TypedNames == {<<"GeoServer", 1>>, <<"GeoServer", 2>>, <<"my", 1>>}

Forms == {[name |-> n, url |-> <<"h">>, authid |-> "a"] : n \in TypedNames \cup {<<>>}}

\* The server lists of the files loaded.
Files ==
    {<<GeoserverServer(<<"GeoServer", 1>>, <<"h">>, "a")>>,
     <<GeoserverServer(<<"my", 1>>, <<"h">>, "a"), GeoserverServer(<<"my", 1>>, <<"h">>, "a")>>}

\* The widget as the handler finds it, the user having answers ready.
Begin(answers) ==
    [ui EXCEPT !.answers = answers, !.res = <<>>, !.bar = "", !.logged = "", !.raised = ""]

\* The handler op ran and left the widget w, every dialog it opened having
\* been answered and every answer the user had ready having been given.
Done(op, w) ==
    /\ w.answers = <<>>
    /\ "unanswered" \notin {w.raised, w.logged}
    /\ ui' = [Slot(w) EXCEPT !.op = op]
    /\ UNCHANGED <<cfg, remote, layersCache, sess, last, prev, ncalls, nfaults>>

AddServer ==
    /\ ui.currentServerHasChanges \/ Len(ui.items) < MaxItems
    /\ Done("_addServer", _addServer(Begin(<<>>), "GeoServer"))

ButtonRemoveClicked ==
    \E answers \in Answers3 :
        Done("buttonRemoveClicked", buttonRemoveClicked(Begin(answers)))

SaveButtonClicked == Done("saveButtonClicked", saveButtonClicked(Begin(<<>>)))

LoadServers ==
    \E file \in Files :
        /\ Len(ui.items) + Len(file) <= MaxItems
        /\ Done("loadServers", loadServers(Begin(<<>>), file, 1))

TextChanged ==
    /\ ui.currentServer # None
    /\ \E form \in Forms :
          form # ui.form /\ Done("textChanged", textChanged(Begin(<<>>), form))

\* The user clicks another item of the list.
CurrentItemChanged ==
    \E new \in 1..Len(ui.items), answers \in Answers3 :
        /\ new # ui.row
        /\ Done("currentServerChanged",
                currentServerChanged([Begin(answers) EXCEPT !.row = new], new, ui.row))

\* The widget, opened with no server defined.
InitWidget ==
    /\ cfg = Config(FILE_BASED, <<>>, {}, FALSE)
    /\ remote = EmptyRemote
    /\ Constructed

NextWidget ==
    \/ AddServer
    \/ ButtonRemoveClicked
    \/ SaveButtonClicked
    \/ LoadServers
    \/ TextChanged
    \/ CurrentItemChanged

SpecWidget == InitWidget /\ [][NextWidget]_vars

\* The widget with servers added, edited, saved and selected, none removed.
NextEdits ==
    \/ AddServer
    \/ SaveButtonClicked
    \/ TextChanged
    \/ CurrentItemChanged

SpecEdits == InitWidget /\ [][NextEdits]_vars

\* The widget opened with two servers defined, the first of them selected
\* and the user having typed a url for it.
TypedUrl(url) ==
    textChanged(
        [NoWidget EXCEPT
            !.servers = [n \in {<<"GeoServer", 1>>, <<"GeoServer", 2>>} |->
                            GeoserverServer(n, <<"h">>, "a")],
            !.items = <<<<"GeoServer", 1>>, <<"GeoServer", 2>>>>,
            !.row = 1,
            !.currentServer = GeoserverServer(<<"GeoServer", 1>>, <<"h">>, "a")],
        [name |-> <<"GeoServer", 1>>, url |-> url, authid |-> "a"])

InitUrl ==
    /\ cfg = Config(FILE_BASED, <<>>, {}, FALSE)
    /\ remote = EmptyRemote
    /\ layersCache = [tag |-> "dict", items |-> {}]
    /\ sess = NoSession
    /\ last = NoCall
    /\ prev = NoCall
    /\ ncalls = 0
    /\ nfaults = 0
    /\ ui \in {TypedUrl(url) : url \in Urls}

NextUrl ==
    \/ SaveButtonClicked
    \/ CurrentItemChanged

SpecUrl == InitUrl /\ [][NextUrl]_vars

----------------------------------------------------------------------------
(* Properties of the existence cache *)

HasReq(call, method, res) ==
    \E i \in 1..Len(call.reqs) :
        call.reqs[i].method = method /\ call.reqs[i].url[1] = res

AllAnswered(call) ==
    call.raised = "" /\ \A i \in 1..Len(call.reqs) : call.reqs[i].out = "ok"

Probes == {"layerExists", "styleExists", "workspaceExists", "datastoreExists"}

UncachedProbes == {"styleExists", "workspaceExists", "datastoreExists"}

\* C1: after deleteLayer(name) has issued its DELETE, the next layerExists(n)
\* call, for any n, issues a new GET of the workspace layer list (and so does
\* not report the deleted layer as existing).
C1_ProbeAfterDeleteRequeries ==
    (prev.op = "deleteLayer" /\ HasReq(prev, "delete", "layer")
        /\ last.op = "layerExists")
    => /\ HasReq(last, "get", "layers.json")
       /\ (AllAnswered(prev) /\ last.arg = prev.arg => last.ret = "False")

\* C9: layerExists, styleExists, workspaceExists and datastoreExists never
\* raise; when the request fails or the response lacks the category key the
\* check returns False.
C9_ProbesNeverRaise ==
    last.op \in Probes
    => /\ last.raised = ""
       /\ last.ret \in {"True", "False"}
       /\ \A i \in 1..Len(last.reqs) :
            last.reqs[i].out \in {"fail", "nokey"} => last.ret = "False"

C9_Witness ==
    /\ last.op = "datastoreExists" /\ prev.op = "layerExists"
    /\ Len(last.reqs) = 1 /\ last.reqs[1].out = "fail"
    /\ last.raised = "" /\ last.ret = "False"

\* The category and name a probe call asks about.
ProbedNames(call, r) ==
    CASE call.op = "styleExists" -> r.styles
      [] call.op = "datastoreExists" -> r.stores
      [] OTHER -> {}

LiveAnswer(call, c, r) ==
    IF call.reqs[1].out # "ok" THEN "False"
    ELSE IF call.op = "workspaceExists" THEN Bool(_workspace(c) \in r.workspaces)
    ELSE Bool(call.arg \in ProbedNames(call, r))

\* C10: every call of styleExists, workspaceExists and datastoreExists issues
\* exactly one GET and answers from that response alone, whatever earlier
\* existence checks left behind, and leaves the layer cache as it was.
C10_UncachedProbesAreLive ==
    [][last'.op \in UncachedProbes /\ ncalls' # ncalls
        => /\ Len(last'.reqs) = 1
           /\ last'.reqs[1].method = "get"
           /\ last'.ret = LiveAnswer(last', cfg, remote)
           /\ last'.raised = ""
           /\ layersCache' = layersCache
           /\ remote' = remote]_vars

C10_Witness ==
    /\ last.op = "styleExists" /\ prev.op = "layerExists"
    /\ layersCache.tag = "list" /\ layersCache.items # {}
    /\ Len(prev.reqs) = 1 /\ Len(last.reqs) = 1
    /\ last.arg \in layersCache.items /\ last.ret = "False"

----------------------------------------------------------------------------
(* Properties of a publishing session *)

\* The positions of the requests of a call sent with a method to an endpoint.
ReqsTo(call, methods, ress) ==
    {i \in 1..Len(call.reqs) :
        call.reqs[i].method \in methods /\ call.reqs[i].url[1] \in ress}

TwicePublished ==
    /\ prev.op = "publishStyle" /\ last.op = "publishStyle"
    /\ prev.arg = last.arg
    /\ AllAnswered(prev) /\ AllAnswered(last)
    /\ ReqsTo(prev, {"post"}, {"styles"}) # {}

\* C2: when the same style is published twice in a row and the first call
\* created it with a POST, the second call sends exactly one style upload, a
\* PUT to styles/{name}, and no POST; the remote holds the style afterwards.
C2_SecondPublishIsPut ==
    TwicePublished
    => /\ ReqsTo(last, {"post"}, {"styles", "style"}) = {}
       /\ Cardinality(ReqsTo(last, {"put"}, {"style"})) = 1
       /\ \A i \in ReqsTo(last, {"put"}, {"style"}) :
             last.reqs[i].url = Url("style", last.arg, "")
       /\ Cardinality(ReqsTo(prev, {"post", "put"}, {"styles", "style"})) = 1
       /\ last.arg \in remote.styles

C2_Witness ==
    /\ TwicePublished
    /\ ReqsTo(last, {"put"}, {"style"}) # {}
    /\ last.arg = "a"

Uploads(call) == ReqsTo(call, {"put"}, {"file.gpkg"}) \cup ReqsTo(call, {"post"}, {"tasks"})

Templates(call) == {call.reqs[i].url : i \in ReqsTo(call, {"get"}, {"featuretype"})}

\* Two layers of one source published one after the other, in a session that
\* had not exported the source, under a strategy that exports (geoserver.py:156).
SameSourceTwice ==
    /\ prev.op = "publishLayer" /\ last.op = "publishLayer"
    /\ {prev.arg, last.arg} = {LayerA.name, LayerB.name}
    /\ LayerA.source = LayerB.source
    /\ cfg.storage \in {FILE_BASED, POSTGIS_MANAGED_BY_GEOSERVER}
    /\ LayerA.source \notin prev.exported
    /\ AllAnswered(prev) /\ AllAnswered(last)

\* C3: of two publishLayer calls for layers of the same source in one session,
\* the first exports and uploads once and the second does neither; both read
\* the same uploaded dataset, and the remote ends with one feature type per
\* layer name in that dataset, each layer bound to the style of its own name.
C3_ExportReuse ==
    SameSourceTwice
    => /\ prev.exports = <<LayerA.source>> /\ last.exports = <<>>
       /\ Cardinality(Uploads(prev)) = 1 /\ Uploads(last) = {}
       /\ Cardinality(Templates(prev)) = 1 /\ Templates(last) = Templates(prev)
       /\ \A u \in Templates(last) :
             {<<u[2], LayerA.name>>, <<u[2], LayerB.name>>} \subseteq remote.fts
       /\ {<<LayerA.name, LayerA.name>>, <<LayerB.name, LayerB.name>>} \subseteq remote.bound

C3_Witness ==
    /\ SameSourceTwice
    /\ cfg.storage = FILE_BASED
    /\ prev.arg = "a" /\ last.arg = "b"
    /\ Uploads(prev) # {} /\ Uploads(last) = {}

\* C4: publishLayer on a vector layer without features sends no request, calls
\* neither the exporter nor the importer, reports one error, returns without
\* raising and leaves the remote, the session maps and the layer cache as they
\* were, under every storage strategy.
C4_ZeroFeatureSkip ==
    [][(ncalls' # ncalls /\ last'.op = "publishLayer" /\ last'.arg = LayerE.name)
        => /\ last'.reqs = <<>>
           /\ last'.exports = <<>> /\ last'.imports = <<>>
           /\ Len(last'.errors) = 1
           /\ last'.raised = ""
           /\ remote' = remote /\ sess' = sess /\ layersCache' = layersCache]_vars

C4_Witness ==
    /\ last.op = "publishLayer" /\ last.arg = LayerE.name
    /\ last.errors # <<>>
    /\ prev.op = "publishLayer" /\ prev.arg = LayerA.name /\ AllAnswered(prev)
    /\ cfg.storage = POSTGIS_MANAGED_BY_GEOSERVER
    /\ DOMAIN sess.exported = {LayerA.source}

LayerNamed(name) == CHOOSE l \in Layers : l.name = name

\* x is v rounded to 5 decimal digits: the multiple of Unit nearest to v, the
\* even one of the two when v is half-way.
IsRounded5(x, v) ==
    /\ x % Unit = 0
    /\ 2 * (x - v) <= Unit /\ 2 * (v - x) <= Unit
    /\ (2 * (x - v) = Unit \/ 2 * (v - x) = Unit) => (x \div Unit) % 2 = 0

\* The feature-type updates of the last call carry the rounded layer extent.
RoundedUpdates ==
    \A i \in ReqsTo(last, {"post", "put"}, {"featuretype", "featuretypes"}) :
        /\ Len(last.reqs[i].body.bbox) = 4
        /\ \A k \in 1..4 :
              IsRounded5(last.reqs[i].body.bbox[k], LayerNamed(last.arg).extent[k])

\* C8 as stated: under the file-based and the server-managed PostGIS strategy
\* every feature-type update of a vector publish carries the layer extent
\* rounded to 5 decimal digits.
C8_RoundedInBothStrategies ==
    (last.op = "publishLayer"
        /\ cfg.storage \in {FILE_BASED, POSTGIS_MANAGED_BY_GEOSERVER}
        /\ LayerNamed(last.arg).provider # "postgres")
    => RoundedUpdates

\* C8, amended: under the file-based strategy every feature-type update of a
\* vector publish carries the layer extent rounded to 5 decimal digits; the
\* server-managed PostGIS strategy sends the bounding box of the template back
\* as it received it.
C8_RoundedWhenFileBased ==
    (last.op = "publishLayer"
        /\ LayerNamed(last.arg).provider # "postgres")
    => /\ cfg.storage = FILE_BASED => RoundedUpdates
       /\ cfg.storage = POSTGIS_MANAGED_BY_GEOSERVER =>
            \A i \in ReqsTo(last, {"post", "put"}, {"featuretype", "featuretypes"}) :
                last.reqs[i].body.bbox = LayerNamed(last.arg).extent

C8_Witness ==
    /\ last.op = "publishLayer" /\ last.arg = "b"
    /\ cfg.storage = FILE_BASED
    /\ \E i \in ReqsTo(last, {"post"}, {"featuretypes"}) :
          last.reqs[i].body.bbox = <<-200, 400, -300, 100>>

----------------------------------------------------------------------------
(* Properties of the validation *)

DotError == "QGIS project name contains unsupported characters ('.')"

DottedValidation ==
    /\ last.op = "validateGeodataBeforePublication"
    /\ Len(_workspace(cfg)) > 1

\* C5 as stated: when the project file name contains a '.', the validation
\* adds the unsupported-characters error and sends no request at all (no GET
\* of workspaces, layers or version).
C5_NoRequestWhenDotted ==
    DottedValidation
    => /\ \E i \in 1..Len(last.errors) : last.errors[i].msg = DotError
       /\ last.reqs = <<>>

\* C5, amended: when the project file name contains a '.', the validation adds
\* the unsupported-characters error before it has sent any request, and then
\* goes on: it sends the GET of the workspace list and, unless a request of
\* the layer list failed, the GET of the version.
C5_ErrorThenRequests ==
    DottedValidation
    => /\ \E i \in 1..Len(last.errors) :
             last.errors[i].msg = DotError /\ last.errors[i].at = 0
       /\ Len(last.reqs) >= 1
       /\ last.reqs[1].method = "get" /\ last.reqs[1].url[1] = "workspaces.json"
       /\ last.raised = "" => ReqsTo(last, {"get"}, {"version.json"}) # {}

C5_Witness ==
    /\ DottedValidation
    /\ Len(last.reqs) = 3
    /\ last.reqs[2].url[1] = "layers.json" /\ last.reqs[3].url[1] = "version.json"
    /\ last.asked = 1
    /\ \E i \in 1..Len(last.errors) : last.errors[i].msg = DotError

----------------------------------------------------------------------------
(* Properties of group publication *)

\* Every request of the call was answered.
Answered(call) == \A i \in 1..Len(call.reqs) : call.reqs[i].out = "ok"

GroupPosts(call, name) ==
    {i \in ReqsTo(call, {"post"}, {"layergroups"}) : call.reqs[i].body.name = name}

\* C6: createGroups on a group G holding the layer L1 and the nested group G2
\* completes; the resource of G lists, in order, the layer ws:L1 and the layer
\* group ws:G2, and the resource of G2 is created before that of G.
C6_NestedGroupRoundTrip ==
    (last.op = "createGroups" /\ last.arg = "nested" /\ Answered(last))
    => /\ last.raised = ""
       /\ \E g \in remote.groups :
             /\ g.name = "G"
             /\ g.items = <<[type |-> "layer", name |-> <<Ws, "L1">>],
                            [type |-> "layerGroup", name |-> <<Ws, "G2">>]>>
       /\ \E i \in GroupPosts(last, "G2") : \A j \in GroupPosts(last, "G") : i < j

\* C7: each time the tile-cache step of _publishGroup has fetched a descriptor,
\* it sends no PUT if the descriptor names the vector-tile format and one PUT
\* otherwise, and afterwards the descriptor of the group names the format (so
\* that a second run of the step sends no PUT).
C7_TileStepIdempotent ==
    (last.op = "createGroups" /\ AllAnswered(last))
    => \A i \in ReqsTo(last, {"get"}, {"gwc"}) :
          /\ Contains(last.reqs[i].resp, VtString) => i + 1 \notin ReqsTo(last, {"put"}, {"gwc"})
          /\ ~Contains(last.reqs[i].resp, VtString) => i + 1 \in ReqsTo(last, {"put"}, {"gwc"})
          /\ Contains(TileXml(remote, last.reqs[i].url[2]), VtString)

----------------------------------------------------------------------------
(* Properties of the caches over a session *)

\* C11: the first layerExists(name) call on a newly constructed object fetches
\* the workspace layer list and, when the request is answered, returns True
\* exactly when name is in the remote list.
C11_FirstProbeFetches ==
    (ncalls = 1 /\ last.op = "layerExists")
    => /\ HasReq(last, "get", "layers.json")
       /\ AllAnswered(last) => last.ret = Bool(last.arg \in remote.layers)

\* C13: after prepareForPublishing has returned normally, for either value of
\* onlySymbology, the exported-layer map, the uploaded-dataset map and the
\* published-layer set are empty and the layer cache holds no fetched list
\* (the call itself fetches none).
C13_PrepareResetsCaches ==
    (last.op = "prepareForPublishing" /\ last.raised = "")
    => /\ sess.exported = EmptyMap /\ sess.uploaded = EmptyMap
       /\ sess.published = {}
       /\ layersCache.tag # "list"

\* C18: when prepareForPublishing(onlySymbology=False) returns normally and the
\* workspace existed before the call, the call deleted the workspace and then
\* posted it again, so that the workspace exists afterwards and holds none of
\* the layers it held before, whatever the probes answered.
C18_WorkspaceWiped ==
    [][(ncalls' # ncalls /\ last'.op = "prepareForPublishing" /\ last'.arg = "False"
           /\ last'.raised = "" /\ _workspace(cfg) \in remote.workspaces)
        => /\ \E i \in ReqsTo(last', {"delete"}, {"workspace"}) :
                 \E j \in ReqsTo(last', {"post"}, {"workspaces"}) : i < j
           /\ _workspace(cfg) \in remote'.workspaces
           /\ remote'.layers \cap remote.layers = {}]_vars

WipingCall ==
    /\ ncalls' # ncalls
    /\ last'.op = "prepareForPublishing" /\ last'.arg = "False"
    /\ last'.raised = ""
    /\ _workspace(cfg) \in remote.workspaces

\* C18, amended: when prepareForPublishing(onlySymbology=False) returns
\* normally, the workspace existed before the call and the probe of
\* deleteWorkspace was answered with the workspace list, the call deleted the
\* workspace and then posted it again: it exists afterwards and holds none of
\* its former layers.  When that probe fails or comes without the list, the
\* workspace is taken as absent and is not deleted.
C18_WorkspaceWipedWhenProbed ==
    [][WipingCall
        => IF last'.reqs[1].out = "ok"
           THEN /\ \E i \in ReqsTo(last', {"delete"}, {"workspace"}) :
                      \E j \in ReqsTo(last', {"post"}, {"workspaces"}) : i < j
                /\ _workspace(cfg) \in remote'.workspaces
                /\ remote'.layers \cap remote.layers = {}
           ELSE /\ ReqsTo(last', {"delete"}, {"workspace"}) = {}
                /\ remote'.layers = remote.layers]_vars

C18_Witness ==
    /\ last.op = "prepareForPublishing" /\ last.arg = "False" /\ last.raised = ""
    /\ ncalls = 1
    /\ ReqsTo(last, {"delete"}, {"workspace"}) # {}
    /\ ReqsTo(last, {"post"}, {"workspaces"}) # {}
    /\ remote.layers = {} /\ remote.workspaces = {Ws}

\* C12: after closePublishing has returned, the exported-layer map, the
\* uploaded-dataset map, the published-layer set and the layer cache hold
\* nothing of the finished session.
C12_CloseDiscardsCaches ==
    (last.op = "closePublishing" /\ last.raised = "")
    => /\ sess.exported = EmptyMap /\ sess.uploaded = EmptyMap
       /\ sess.published = {}
       /\ layersCache.tag # "list"

----------------------------------------------------------------------------
(* Properties of the validation, continued *)

VersionError == "Geoserver 2.14.0 or later is required"

OverwriteError == "Cannot overwrite existing workspace"

Reported(call, msg) == \E i \in 1..Len(call.errors) : call.errors[i].msg = msg

\* The version has two or three integer parts and its (major, minor) is below
\* (2, 14).
BelowMinimum(ver) ==
    /\ Len(ver) \in {2, 3}
    /\ \A k \in 1..Len(ver) : ver[k] # NaN
    /\ ver[1] < 2 \/ (ver[1] = 2 /\ ver[2] < 14)

\* C14: the unsupported-version error is added exactly when the version the
\* server reports parses as major.minor[.patch] with (major, minor) below
\* (2, 14); a version at or above it, a missing one and an unparsable one add
\* no error.
C14_VersionGate ==
    last.op = "validateGeodataBeforePublication"
    => \A i \in ReqsTo(last, {"get"}, {"version.json"}) :
          last.reqs[i].out = "ok"
          => (Reported(last, VersionError) <=> BelowMinimum(last.reqs[i].resp))

\* The workspace exists remotely and holds a layer that is not in toPublish.
WouldDelete ==
    /\ _workspace(cfg) \in remote.workspaces
    /\ remote.layers \ ToPublish[last.arg] # {}

\* C15: with its requests answered, the validation adds the overwrite error
\* exactly when the workspace exists remotely, a remote layer is not in
\* toPublish and the user answered No; it asks once when a layer would be
\* deleted and does not ask otherwise.
C15_OverwriteGate ==
    (last.op = "validateGeodataBeforePublication" /\ AllAnswered(last))
    => /\ Reported(last, OverwriteError) <=> (WouldDelete /\ last.answers = <<"No">>)
       /\ WouldDelete => last.asked = 1 /\ Len(last.answers) = 1
       /\ ~WouldDelete => last.asked = 0 /\ last.answers = <<>>

C15_Witness ==
    /\ last.op = "validateGeodataBeforePublication" /\ AllAnswered(last)
    /\ WouldDelete /\ last.arg = "none"
    /\ last.answers = <<"No">>
    /\ Reported(last, OverwriteError)

----------------------------------------------------------------------------
(* Properties of the publish branches *)

DataEndpoints ==
    {"file.gpkg", "file.geotiff", "datastore", "datastores", "featuretype",
     "featuretypes", "imports", "tasks", "target", "import"}

\* The last call published a layer that has something to publish, and returned.
Published1 ==
    /\ last.op = "publishLayer" /\ last.raised = ""
    /\ ~(LayerNamed(last.arg).type = "vector" /\ LayerNamed(last.arg).featureCount = 0)

\* C16: in every branch, a publishLayer call that returns normally on a layer
\* with something to publish ends its requests with the PUT to layers/{name}
\* that sets the default style {name}, after every data and feature-type
\* request of the call.
C16_EndsWithStyleBinding ==
    Published1
    => /\ Len(last.reqs) >= 1
       /\ last.reqs[Len(last.reqs)].method = "put"
       /\ last.reqs[Len(last.reqs)].url = Url("layer", last.arg, "")
       /\ last.reqs[Len(last.reqs)].body.style = last.arg
       /\ \A i \in ReqsTo(last, {"post", "put", "delete"}, DataEndpoints) :
             i < Len(last.reqs)
       /\ ReqsTo(last, {"post", "put"}, DataEndpoints) # {}

C16_Witness ==
    /\ Published1 /\ last.arg = LayerR.name
    /\ prev.op = "publishLayer" /\ prev.arg = LayerP.name /\ prev.raised = ""
    /\ cfg.useOriginalDataSource
    /\ ReqsTo(last, {"put"}, {"layer"}) # {}

\* A file-based publish of a vector layer, every request answered.
FileBasedPublish ==
    /\ last.op = "publishLayer" /\ AllAnswered(last)
    /\ cfg.storage = FILE_BASED
    /\ LayerNamed(last.arg).type = "vector" /\ LayerNamed(last.arg).featureCount > 0
    /\ ~(LayerNamed(last.arg).provider = "postgres" /\ cfg.useOriginalDataSource)

FtPosts(call) == ReqsTo(call, {"post"}, {"featuretypes"})

FtPuts(call) == ReqsTo(call, {"put"}, {"featuretype"})

\* C19 as stated: the file-based publish sends the feature type with POST when
\* this call uploaded the dataset and with PUT when the dataset was reused.
C19_PostWhenUploaded ==
    FileBasedPublish
    => IF Uploads(last) # {}
       THEN FtPosts(last) # {} /\ FtPuts(last) = {}
       ELSE FtPuts(last) # {} /\ FtPosts(last) = {}

\* C19, amended: after fetching the template, the file-based publish sends the
\* feature type once: with PUT (to the template's URL) when this call uploaded
\* the dataset, and with POST (to the dataset's featuretypes) when the dataset
\* was reused from an earlier upload of the session.
C19_PutWhenUploaded ==
    FileBasedPublish
    => /\ Cardinality(FtPosts(last) \cup FtPuts(last)) = 1
       /\ \A i \in FtPosts(last) \cup FtPuts(last) :
             \E j \in ReqsTo(last, {"get"}, {"featuretype"}) : j < i
       /\ IF Uploads(last) # {}
          THEN FtPuts(last) # {} /\ FtPosts(last) = {}
          ELSE FtPosts(last) # {} /\ FtPuts(last) = {}

C19_Witness ==
    /\ FileBasedPublish /\ last.arg = "b"
    /\ Uploads(last) = {} /\ FtPosts(last) # {}
    /\ prev.op = "publishLayer" /\ prev.arg = "a"
    /\ Uploads(prev) # {} /\ FtPuts(prev) # {}

ImportProtocol ==
    <<<<"post", "imports">>, <<"post", "tasks">>, <<"put", "target">>, <<"post", "import">>>>

IsImportReq(r) == r.url[1] \in {"imports", "tasks", "target", "import"}

\* The import-job requests of a call, in the order sent.
ImportReqs(call) == SelectSeq(call.reqs, IsImportReq)

IsPrefix(s, t) == Len(s) <= Len(t) /\ s = SubSeq(t, 1, Len(s))

\* C20: under the server-managed PostGIS strategy the import-job requests of a
\* publishLayer call run in the order create import, create task, set target,
\* execute import; a file enters the upload cache only in a call in which all
\* four were sent and answered, and a call for a file already in the cache
\* sends none of them.
C20_ImportProtocol ==
    [][(ncalls' # ncalls /\ last'.op = "publishLayer"
           /\ cfg.storage = POSTGIS_MANAGED_BY_GEOSERVER)
        => /\ IsPrefix([i \in 1..Len(ImportReqs(last')) |->
                          <<ImportReqs(last')[i].method, ImportReqs(last')[i].url[1]>>],
                       ImportProtocol)
           /\ DOMAIN sess'.uploaded # DOMAIN sess.uploaded
                => /\ Len(ImportReqs(last')) = 4
                   /\ \A i \in 1..4 : ImportReqs(last')[i].out = "ok"
           /\ \A f \in DOMAIN sess.uploaded :
                 (LayerNamed(last'.arg).source \in DOMAIN sess'.exported
                    /\ sess'.exported[LayerNamed(last'.arg).source] = f)
                 => ImportReqs(last') = <<>>]_vars

C20_Witness ==
    /\ cfg.storage = POSTGIS_MANAGED_BY_GEOSERVER
    /\ prev.op = "publishLayer" /\ prev.arg = "a" /\ AllAnswered(prev)
    /\ Len(ImportReqs(prev)) = 4
    /\ last.op = "publishLayer" /\ last.arg = "b" /\ AllAnswered(last)
    /\ ImportReqs(last) = <<>>
    /\ DOMAIN sess.uploaded = {"s1.zip"}

\* A second publishLayer call for the layer of the call before it, which
\* returned normally, with no transport fault during the second call.
Republish ==
    /\ ncalls' # ncalls /\ nfaults' = nfaults
    /\ last.op = "publishLayer" /\ last.raised = ""
    /\ last'.op = "publishLayer" /\ last'.arg = last.arg

\* C17: a second publishLayer call for the same layer in the same session,
\* after the first returned normally, returns normally too and leaves the
\* datastores, feature types and layers of the workspace as they were.
C17_RepublishIsSafe ==
    [][Republish
       => /\ last'.raised = ""
          /\ remote'.stores = remote.stores
          /\ remote'.fts = remote.fts
          /\ remote'.layers = remote.layers]_vars

\* The same, against servers that accept the creation of what exists.
C17_RepublishIsSafeWhenAccepted ==
    [][(Republish /\ ~remote.strict)
       => /\ last'.raised = ""
          /\ remote'.stores = remote.stores
          /\ remote'.fts = remote.fts
          /\ remote'.layers = remote.layers]_vars

----------------------------------------------------------------------------
(* Properties of the feature-type fallback and of the PostGIS branches *)

IsFtPost(r) == r.method = "post" /\ r.url[1] = "featuretypes"

IsFtPut(r) == r.method = "put" /\ r.url[1] = "featuretype"

\* A publishLayer call under the server-managed PostGIS strategy.
ManagedPublish ==
    /\ last.op = "publishLayer"
    /\ cfg.storage = POSTGIS_MANAGED_BY_GEOSERVER

\* C21: under the server-managed PostGIS strategy the feature type is sent
\* first with POST to the featuretypes collection; the PUT to the feature
\* type's own URL follows exactly when that POST failed, carrying the same
\* feature type; and a call in which only the POST failed returns normally.
C21_PostThenPutOnFailure ==
    ManagedPublish
    => /\ Cardinality(FtPosts(last)) <= 1
       /\ \A i \in FtPosts(last) :
             /\ \E j \in ReqsTo(last, {"get"}, {"featuretype"}) : j < i
             /\ last.reqs[i].out # "ok"
                  <=> /\ i < Len(last.reqs)
                      /\ IsFtPut(last.reqs[i + 1])
                      /\ last.reqs[i + 1].body = last.reqs[i].body
             /\ (\A k \in 1..Len(last.reqs) : k # i => last.reqs[k].out = "ok")
                  => last.raised = ""
       /\ \A i \in FtPuts(last) :
             /\ i > 1
             /\ IsFtPost(last.reqs[i - 1])
             /\ last.reqs[i - 1].out # "ok"
             /\ last.reqs[i].url[2] = last.reqs[i - 1].url[2]

C21_Witness ==
    /\ ManagedPublish /\ last.raised = ""
    /\ \E i \in FtPosts(last) :
          /\ last.reqs[i].out = "fail"
          /\ IsFtPut(last.reqs[i + 1]) /\ last.reqs[i + 1].out = "ok"
          /\ last.reqs[Len(last.reqs)].url[1] = "layer"

FileUploads == {"file.gpkg", "file.geotiff", "tasks"}

\* The requests of a call as <<method, endpoint, name in the URL, name in the body>>.
Sent(call) ==
    [i \in 1..Len(call.reqs) |->
        <<call.reqs[i].method, call.reqs[i].url[1], call.reqs[i].url[2],
          call.reqs[i].body.name>>]

\* What _publishVectorLayerFromPostgis sends for the layer called name.
FromPostgisRequests(name) ==
    << <<"post", "datastores", "", name>>,
       <<"post", "featuretypes", name, name>>,
       <<"get", "layer", name, NoBody.name>>,
       <<"put", "layer", name, NoBody.name>> >>

\* A publishLayer step for a vector layer with features under the
\* publisher-managed PostGIS strategy, the database being registered.
BridgePublish ==
    /\ ncalls' # ncalls /\ last'.op = "publishLayer"
    /\ cfg.storage = POSTGIS_MANAGED_BY_BRIDGE
    /\ cfg.postgisdb \in cfg.servers
    /\ LayerNamed(last'.arg).type = "vector"
    /\ LayerNamed(last'.arg).featureCount > 0
    /\ ~(LayerNamed(last'.arg).provider = "postgres" /\ cfg.useOriginalDataSource)

\* C22: under the publisher-managed PostGIS strategy publishLayer calls
\* db.importLayer once, before any request, then POSTs the datastore named
\* after the layer, POSTs the feature type named after the layer and binds
\* the default style, stopping at the first failed request; it calls no
\* exporter, sends no file upload and leaves the export and upload caches
\* as they were.
C22_BridgeDelegatesLoading ==
    [][BridgePublish
       => /\ last'.imports = <<[layer |-> last'.arg, at |-> 0]>>
          /\ IsPrefix(Sent(last'), FromPostgisRequests(last'.arg))
          /\ last'.raised = "" => Len(last'.reqs) = 4
          /\ last'.reqs # <<>>
          /\ last'.reqs[Len(last'.reqs)].body.style =
                (IF Len(last'.reqs) = 4 THEN last'.arg ELSE NoBody.style)
          /\ last'.exports = <<>>
          /\ ReqsTo(last', {"post", "put"}, FileUploads) = {}
          /\ sess'.exported = sess.exported
          /\ sess'.uploaded = sess.uploaded]_vars

C22_Witness ==
    /\ cfg.storage = POSTGIS_MANAGED_BY_BRIDGE /\ cfg.postgisdb \in cfg.servers
    /\ prev.op = "publishLayer" /\ prev.arg = LayerR.name /\ prev.raised = ""
    /\ last.op = "publishLayer" /\ last.arg = LayerA.name /\ last.raised = ""
    /\ Len(last.imports) = 1 /\ Len(last.reqs) = 4
    /\ sess.exported # EmptyMap

\* A publishLayer step for a vector layer with features under the
\* publisher-managed PostGIS storage, the database not being registered.
UnregisteredPublish ==
    /\ ncalls' # ncalls /\ last'.op = "publishLayer"
    /\ cfg.storage = POSTGIS_MANAGED_BY_BRIDGE
    /\ cfg.postgisdb \notin cfg.servers
    /\ LayerNamed(last'.arg).type = "vector"
    /\ LayerNamed(last'.arg).featureCount > 0

\* The call raised before doing anything.
RaisedUntouched ==
    /\ last'.raised = "Exception"
    /\ last'.imports = <<>> /\ last'.exports = <<>> /\ last'.reqs = <<>>
    /\ remote' = remote /\ sess' = sess /\ layersCache' = layersCache

\* C23 as stated: with storage POSTGIS_MANAGED_BY_BRIDGE and an unregistered
\* database, publishLayer on any vector layer with features raises the
\* configuration error, imports nothing, sends nothing and changes nothing.
C23_UnregisteredRaises ==
    [][UnregisteredPublish => RaisedUntouched]_vars

\* C23, amended: the same for every vector layer with features that is not
\* published from its original PostGIS source; a PostGIS layer published with
\* useOriginalDataSource never looks the database up and is published by
\* _publishVectorLayerFromPostgis.
C23_UnregisteredRaisesUnlessOriginal ==
    [][UnregisteredPublish
       => IF LayerNamed(last'.arg).provider = "postgres" /\ cfg.useOriginalDataSource
          THEN /\ last'.raised # "Exception"
               /\ last'.imports = <<>>
               /\ IsPrefix(Sent(last'), FromPostgisRequests(last'.arg))
               /\ last'.reqs # <<>>
          ELSE RaisedUntouched]_vars

C23_Witness ==
    /\ cfg.storage = POSTGIS_MANAGED_BY_BRIDGE /\ cfg.postgisdb \notin cfg.servers
    /\ prev.op = "publishLayer" /\ prev.arg = LayerR.name /\ prev.raised = ""
    /\ last.op = "publishLayer" /\ last.arg = LayerA.name
    /\ last.raised = "Exception" /\ last.reqs = <<>>
    /\ sess.exported # EmptyMap /\ layersCache.tag = "None"

----------------------------------------------------------------------------
(* Properties of the group publisher *)

\* A createGroups step for the one flat group F, which got as far as the
\* requests that replace its style.
FlatStyleStep ==
    /\ ncalls' # ncalls /\ last'.op = "createGroups" /\ last'.arg = "flat"
    /\ ReqsTo(last', {"delete"}, {"style"}) \cup ReqsTo(last', {"post"}, {"styles"}) # {}

StyleDeletes(call) == ReqsTo(call, {"delete"}, {"style"})

StyleProbesAnswered(call) ==
    {i \in ReqsTo(call, {"get"}, {"styles.json"}) : call.reqs[i].out = "ok"}

\* The DELETE comes before the container POST, and the body is PUT only after
\* an accepted POST.
StyleSequence(call) ==
    /\ Cardinality(StyleDeletes(call)) <= 1
    /\ Cardinality(ReqsTo(call, {"post"}, {"styles"})) <= 1
    /\ \A d \in StyleDeletes(call) :
          /\ call.reqs[d].url[2] = Flat.name
          /\ \A p \in ReqsTo(call, {"post"}, {"styles"}) : d < p
          /\ call.reqs[d].out # "ok" => ReqsTo(call, {"post"}, {"styles"}) = {}
    /\ \A u \in ReqsTo(call, {"put"}, {"style"}) :
          \E p \in ReqsTo(call, {"post"}, {"styles"}) :
              p < u /\ call.reqs[p].out = "ok" /\ call.reqs[p].url[2] = call.reqs[u].url[2]

\* C24 as stated: publishing a group style sends the DELETE of the style
\* exactly when a style of the group's name exists, before the container POST,
\* and the body PUT only after that POST succeeded.
C24_DeleteWhenExists ==
    [][FlatStyleStep
       => /\ StyleDeletes(last') # {} <=> Flat.name \in remote.styles
          /\ StyleSequence(last')]_vars

\* C24, amended: the DELETE is sent exactly when the style exists and both
\* existence probes (the one of _publishGroupMapBox and the one of deleteStyle)
\* were answered with the style list; a probe that fails reads as 'no such
\* style', and then the container POST is sent although the style exists.  The
\* DELETE precedes the POST and the body PUT follows an accepted POST.
C24_DeleteWhenProbedTwice ==
    [][FlatStyleStep
       => /\ StyleDeletes(last') # {}
               <=> /\ Flat.name \in remote.styles
                   /\ Cardinality(StyleProbesAnswered(last')) = 2
          /\ (Flat.name \in remote.styles /\ StyleProbesAnswered(last') # {})
               => Cardinality(ReqsTo(last', {"get"}, {"styles.json"})) = 2
          /\ (Flat.name \in remote.styles /\ StyleDeletes(last') = {})
               => /\ Cardinality(StyleProbesAnswered(last')) < 2
                  /\ ReqsTo(last', {"post"}, {"styles"}) # {}
          /\ StyleSequence(last')]_vars

C24_Witness ==
    /\ last.op = "createGroups" /\ last.arg = "flat"
    /\ prev.op = "createGroups" /\ prev.arg = "flat" /\ AllAnswered(prev)
    /\ StyleDeletes(prev) = {}
    /\ \E d \in StyleDeletes(last) :
          \E p \in ReqsTo(last, {"post"}, {"styles"}) :
              /\ d < p /\ last.reqs[p].out = "ok"
              /\ \E u \in ReqsTo(last, {"put"}, {"style"}) : p < u

IsGroupPost(r) == r.method = "post" /\ r.url[1] = "layergroups"

IsGroupPut(r) == r.method = "put" /\ r.url[1] = "layergroups"

\* The publishables of the flat group F, in the order of group["layers"].
FlatPublishables ==
    [i \in 1..Len(Flat.layers) |-> [type |-> "layer", name |-> <<Ws, Flat.layers[i].name>>]]

\* C25: for a flat group _publishGroup sends the DELETE of the layer group,
\* whose failure is ignored, directly followed by the POST of the definition,
\* and the PUT of the same definition exactly when the POST failed; the
\* definition lists one 'layer' entry per member, in the order of
\* group['layers'], each named workspace:member.
C25_FlatGroupDefinition ==
    (last.op = "createGroups" /\ last.arg = "flat")
    => /\ Cardinality(ReqsTo(last, {"delete"}, {"layergroup"})) <= 1
       /\ Cardinality(ReqsTo(last, {"post"}, {"layergroups"})) <= 1
       /\ \A d \in ReqsTo(last, {"delete"}, {"layergroup"}) :
             /\ last.reqs[d].url[2] = Flat.name
             /\ d < Len(last.reqs)
             /\ IsGroupPost(last.reqs[d + 1])
       /\ \A p \in ReqsTo(last, {"post"}, {"layergroups"}) :
             /\ p > 1
             /\ last.reqs[p - 1].method = "delete" /\ last.reqs[p - 1].url[1] = "layergroup"
             /\ last.reqs[p].body.name = Flat.name
             /\ last.reqs[p].body.items = FlatPublishables
             /\ last.reqs[p].out # "ok"
                  <=> /\ p < Len(last.reqs)
                      /\ IsGroupPut(last.reqs[p + 1])
                      /\ last.reqs[p + 1].body = last.reqs[p].body
       /\ \A u \in ReqsTo(last, {"put"}, {"layergroups"}) :
             u > 1 /\ IsGroupPost(last.reqs[u - 1]) /\ last.reqs[u - 1].out # "ok"
       /\ AllAnswered(last) => ReqsTo(last, {"post"}, {"layergroups"}) # {}

C25_Witness ==
    /\ last.op = "createGroups" /\ last.arg = "flat" /\ last.raised = ""
    /\ \E p \in ReqsTo(last, {"post"}, {"layergroups"}) :
          /\ last.reqs[p].out = "fail"
          /\ IsGroupPut(last.reqs[p + 1]) /\ last.reqs[p + 1].out = "ok"
    /\ prev.op = "createGroups" /\ prev.arg = "flat" /\ AllAnswered(prev)
    /\ ReqsTo(prev, {"post"}, {"layergroups"}) # {}
    /\ ReqsTo(prev, {"put"}, {"layergroups"}) = {}

----------------------------------------------------------------------------
(* Properties of closePublishing *)

\* The name of the combined style.
CombinedStyle == "mb_" \o Joined(_workspace(cfg))

StyleUploads(call) ==
    ReqsTo(call, {"post"}, {"styles"}) \cup ReqsTo(call, {"put"}, {"style"})

\* The source is a vector source whose only tile URL is the WMTS template of
\* the layer workspace:name in the tile matrix set EPSG:900913.
IsTileSource(def, name) ==
    /\ def.type = "vector"
    /\ Len(def.tiles) = 1
    /\ def.tiles[1].service = baseUrl \o <<"gwc", "service", "wmts">>
    /\ def.tiles[1].LAYER = <<_workspace(cfg), name>>
    /\ def.tiles[1].TILEMATRIXSET = "EPSG:900913"

Rewritten(doc) == \A n \in DOMAIN doc.sources : IsTileSource(doc.sources[n], n)

\* The names of the files written and the endpoints of the requests sent,
\* in the order closePublishing does them when nothing fails.
CloseFiles == <<"style.mapbox", "style.mapbox", "mapbox.js", "index.html">>

\* C26: closePublishing sends no request and writes no file when
\* useVectorTiles is false.  When it is true the combined style is generated
\* and rewritten before the first request; the style uploaded, under the name
\* 'mb_' + workspace, is the rewritten document; the preview files are written
\* after the style was published and index.html and mapbox.js are uploaded
\* last, in that order, mapbox.js embedding the rewritten document.
C26_CloseOrder ==
    last.op = "closePublishing"
    => IF ~cfg.useVectorTiles
       THEN last.reqs = <<>> /\ last.files = <<>> /\ last.raised = ""
       ELSE last.raised # "AttributeError"
            => /\ Len(last.files) >= 2
               /\ IsPrefix([i \in 1..Len(last.files) |-> last.files[i].name], CloseFiles)
               /\ last.files[1].at = 0 /\ last.files[2].at = 0
               /\ last.files[1].content \in StyleDocs(sess.published)
               /\ Rewritten(last.files[2].content)
               /\ Cardinality(StyleUploads(last)) <= 1
               /\ \A u \in StyleUploads(last) :
                     /\ last.reqs[u].url[2] = CombinedStyle
                     /\ last.reqs[u].body.items = last.files[2].content
                     /\ \A i \in 3..Len(last.files) : last.files[i].at >= u
               /\ ReqsTo(last, {"put"}, {"resource"}) # {}
                    => /\ Len(last.files) = 4
                       /\ \E u \in StyleUploads(last) :
                             /\ last.reqs[u].out = "ok"
                             /\ \A i \in ReqsTo(last, {"put"}, {"resource"}) : u < i
               /\ IsPrefix([i \in 1..Cardinality(ReqsTo(last, {"put"}, {"resource"})) |->
                              last.reqs[Len(last.reqs)
                                        - Cardinality(ReqsTo(last, {"put"}, {"resource"}))
                                        + i].url[2]],
                           <<"index.html", "mapbox.js">>)
               /\ \A i \in ReqsTo(last, {"put"}, {"resource"}) :
                     last.reqs[i].url[2] = "mapbox.js"
                     => last.reqs[i].body.items = previewScript(last.files[2].content)
               /\ AllAnswered(last)
                    => /\ StyleUploads(last) # {}
                       /\ Cardinality(ReqsTo(last, {"put"}, {"resource"})) = 2

C26_Witness ==
    /\ last.op = "closePublishing" /\ cfg.useVectorTiles /\ AllAnswered(last)
    /\ sess.published # {}
    /\ DOMAIN last.files[1].content.sources # {}
    /\ Cardinality(ReqsTo(last, {"put"}, {"resource"})) = 2

\* C27: _editMapboxFiles keeps the source names of the style document,
\* replaces every source by a vector source whose single tile URL is the WMTS
\* template for LAYER=workspace:name with tile matrix set EPSG:900913, and
\* leaves the rest of the document as it was.
C27_EditKeepsNames ==
    (last.op = "closePublishing" /\ Len(last.files) >= 2)
    => /\ last.files[2].name = last.files[1].name
       /\ DOMAIN last.files[2].content.sources = DOMAIN last.files[1].content.sources
       /\ \A n \in DOMAIN last.files[2].content.sources :
             /\ IsTileSource(last.files[2].content.sources[n], n)
             /\ last.files[2].content.sources[n] # last.files[1].content.sources[n]
       /\ last.files[2].content.rest = last.files[1].content.rest

C27_Witness ==
    /\ last.op = "closePublishing" /\ Len(last.files) >= 2
    /\ DOMAIN last.files[1].content.sources = {"a"}
    /\ last.files[1].content.sources["a"].type = "raster"
    /\ last.files[2].content.sources["a"].type = "vector"

----------------------------------------------------------------------------
(* Properties of the session start and of the layer cache *)

Mutating(call) ==
    {i \in 1..Len(call.reqs) : call.reqs[i].method \in {"post", "put", "delete"}}

\* C28: prepareForPublishing(onlySymbology=True) sends no DELETE; the only
\* mutating request it sends is the POST that creates the workspace, sent when
\* the probe did not find the workspace, so the layers, datastores and styles
\* of the remote are after the call what they were before it.
C28_SymbologyOnlyKeepsRemote ==
    [][(ncalls' # ncalls /\ last'.op = "prepareForPublishing" /\ last'.arg = "True")
       => /\ ReqsTo(last', {"delete"}, {"workspace", "layer", "style", "datastore",
                                        "layergroup"}) = {}
          /\ Cardinality(Mutating(last')) <= 1
          /\ \A i \in Mutating(last') :
                /\ last'.reqs[i].method = "post"
                /\ last'.reqs[i].url[1] = "workspaces"
                /\ last'.reqs[i].body.items = _workspace(cfg)
                /\ i = 2 /\ last'.reqs[1].url[1] = "workspaces.json"
          /\ AllAnswered(last')
               => (Mutating(last') # {} <=> _workspace(cfg) \notin remote.workspaces)
          /\ remote'.layers = remote.layers
          /\ remote'.stores = remote.stores
          /\ remote'.styles = remote.styles
          /\ remote'.fts = remote.fts]_vars

C28_Witness ==
    /\ last.op = "prepareForPublishing" /\ last.arg = "True" /\ last.raised = ""
    /\ remote.layers # {} /\ remote.styles # {} /\ remote.stores # {}
    /\ prev.op = "deleteLayer"

\* The requests that create or replace a layer of the workspace.
LayerMutations == {"file.gpkg", "file.geotiff", "featuretypes", "featuretype", "import"}

\* The call before the last one changed the remote layer list: a publishLayer
\* one of whose creating requests was accepted, or a deleteWorkspace whose
\* DELETE was accepted.
MutatedBefore ==
    \/ /\ prev.op = "publishLayer"
       /\ \E i \in ReqsTo(prev, {"post", "put"}, LayerMutations) : prev.reqs[i].out = "ok"
    \/ /\ prev.op = "deleteWorkspace"
       /\ \E i \in ReqsTo(prev, {"delete"}, {"workspace"}) : prev.reqs[i].out = "ok"

\* C29: the layerExists call that follows a publishLayer call which created
\* or replaced a remote layer (whether it then returned or raised), or a
\* deleteWorkspace call which sent its DELETE, fetches the layer list again.
C29_ProbeAfterMutationRequeries ==
    (last.op = "layerExists" /\ MutatedBefore) => HasReq(last, "get", "layers.json")

\* The call fetched the layer list and the server answered: with the list
\* under its key, or, for a workspace without layers, without the key.
FetchedList(call) ==
    \E i \in ReqsTo(call, {"get"}, {"layers.json"}) :
        \/ call.reqs[i].out = "ok"
        \/ call.reqs[i].out = "nokey" /\ remote.layers = {}

\* C30: a layerExists call that follows a layerExists call which fetched the
\* layer list, the cache not having been cleared in between, sends no request,
\* whatever the list was (an empty workspace included).
C30_FetchedListIsCached ==
    (prev.op = "layerExists" /\ FetchedList(prev) /\ last.op = "layerExists")
    => last.reqs = <<>>

----------------------------------------------------------------------------
(* Properties of the validation: requests and failures *)

\* C31: validateGeodataBeforePublication sends only GET requests, whatever
\* the project, the layers to publish, the user's answer and the answers of
\* the server are, and the remote state after the call is the remote state
\* before it.
C31_ValidationReadOnly ==
    [][(ncalls' # ncalls /\ last'.op = "validateGeodataBeforePublication")
       => /\ \A i \in 1..Len(last'.reqs) : last'.reqs[i].method = "get"
          /\ Mutating(last') = {}
          /\ remote' = remote]_vars

C31_Witness ==
    /\ last.op = "validateGeodataBeforePublication" /\ AllAnswered(last)
    /\ Len(last.reqs) = 3
    /\ last.answers = <<"Yes">>
    /\ remote.layers # {}
    /\ prev.op = "prepareForPublishing"

ConnectError == "Could not connect to Geoserver"

\* The number of errors with message msg the call added.
Count(call, msg) == Cardinality({i \in 1..Len(call.errors) : call.errors[i].msg = msg})

\* C32: the validation never raises, whatever the server answers (a failing
\* request of the layer list included): failures end up in the errors
\* collection. A version request that fails or has no readable answer adds
\* exactly one 'Could not connect' error and no version error.
C32_ValidationNeverRaises ==
    last.op = "validateGeodataBeforePublication"
    => /\ last.raised = ""
       /\ \A i \in ReqsTo(last, {"get"}, {"version.json"}) :
             last.reqs[i].out # "ok"
             => Count(last, ConnectError) = 1 /\ ~Reported(last, VersionError)

----------------------------------------------------------------------------
(* Properties of the stored url *)

\* The url ends in '/rest'.
EndsInRest(url) ==
    Len(url) >= 2 /\ url[Len(url) - 1] = "/" /\ url[Len(url)] = "rest"

\* The url typed in already ends in '/rest', with or without a '/' after it.
HasRest(url) ==
    \/ EndsInRest(url)
    \/ endswith(url, "/") /\ EndsInRest(SubSeq(url, 1, Len(url) - 1))

\* C33: the server saved from a form with a non-empty url (the form keeps
\* the text typed) has a url without '/' at its end that ends in '/rest';
\* a text that already ends in '/rest' or '/rest/' gets no second suffix,
\* and a server made from the stored url has the same url.
C33_UrlEndsInOneRest ==
    (ui.op = "saveButtonClicked" /\ ui.ret /\ ui.form.url # <<>>)
    => /\ ~endswith(ui.currentServer.url, "/")
       /\ EndsInRest(ui.currentServer.url)
       /\ HasRest(ui.form.url) => Len(ui.currentServer.url) <= Len(ui.form.url)
       /\ GeoserverServer(ui.currentServer.name, ui.currentServer.url,
                          ui.currentServer.authid) = ui.currentServer

----------------------------------------------------------------------------
(* Properties of the mirrored PostGIS datastore *)

\* The POSTs of a call that create a datastore in the session workspace.
DsPosts(call) == ReqsTo(call, {"post"}, {"datastores"})

\* The step is a publishLayer call under the server-managed PostGIS
\* strategy, for a layer that is loaded into the mirrored datastore.
ManagedStep ==
    /\ ncalls' # ncalls
    /\ last'.op = "publishLayer"
    /\ cfg.storage = POSTGIS_MANAGED_BY_GEOSERVER
    /\ HasReq(last', "get", "datastores.json")

\* C34 as stated: in a session under the server-managed PostGIS strategy the
\* POST that creates the mirrored datastore is sent at most once (not again
\* by the publishLayer call that follows one which sent it), and never when
\* the workspace holds a datastore of that name.
C34_DatastoreCreatedOnce ==
    [][ManagedStep
       => /\ Cardinality(DsPosts(last')) <= 1
          /\ DsPosts(last') # {} => cfg.postgisdb[2] \notin remote.stores
          /\ (last.op = "publishLayer" /\ DsPosts(last) # {}) => DsPosts(last') = {}]_vars

\* C34, amended: a publishLayer call sends the POST at most once, right
\* after its existence probe and the GET of the source datastore, and exactly
\* when the probe did not report the datastore and that GET was answered;
\* so a call whose probe is answered with the datastore list sends it never
\* when the datastore exists, and not after a call whose POST was accepted.
C34_DatastoreCreatedWhenProbedAbsent ==
    [][ManagedStep
       => /\ Cardinality(DsPosts(last')) <= 1
          /\ last'.reqs[1].url[1] = "datastores.json"
          /\ \A i \in DsPosts(last') :
                /\ i = 3
                /\ last'.reqs[2].method = "get" /\ last'.reqs[2].url[1] = "datastore.json"
                /\ last'.reqs[2].url[2] = cfg.postgisdb[2]
                /\ last'.reqs[3].body.name = cfg.postgisdb[2]
                /\ last'.reqs[1].out = "ok" => cfg.postgisdb[2] \notin remote.stores
          /\ (last'.reqs[1].out = "ok" /\ cfg.postgisdb[2] \in remote.stores)
                => DsPosts(last') = {}
          /\ (last'.reqs[1].out # "ok" \/ cfg.postgisdb[2] \notin remote.stores)
                => /\ Len(last'.reqs) >= 2
                   /\ last'.reqs[2].out = "ok" => DsPosts(last') = {3}
          /\ (/\ last.op = "publishLayer"
              /\ \E i \in DsPosts(last) : last.reqs[i].out = "ok"
              /\ last'.reqs[1].out = "ok")
                => DsPosts(last') = {}]_vars

C34_Witness ==
    /\ last.op = "publishLayer" /\ prev.op = "publishLayer"
    /\ cfg.storage = POSTGIS_MANAGED_BY_GEOSERVER
    /\ \E i \in DsPosts(prev) : prev.reqs[i].out = "ok"
    /\ AllAnswered(last) /\ HasReq(last, "get", "datastores.json")
    /\ DsPosts(last) = {}
    /\ cfg.postgisdb[2] \in remote.stores

----------------------------------------------------------------------------
(* Properties of the server list *)

\* The names shown by the items of the list.
Shown == {ui.items[i] : i \in 1..Len(ui.items)}

\* C35: after any sequence of add, remove, save (renames included), load
\* and selection actions the names shown by the items of the list are
\* pairwise distinct and are exactly the keys of the server registry.
C35_ListIsRegistry ==
    /\ \A i, j \in 1..Len(ui.items) : ui.items[i] = ui.items[j] => i = j
    /\ Shown = DOMAIN ui.servers

----------------------------------------------------------------------------
(* Properties of the unsaved changes *)

\* The step leaves the current server, the registry, the list, the form and
\* the unsaved-changes flag as they were.
EditsKept ==
    /\ ui'.currentServer = ui.currentServer
    /\ ui'.servers = ui.servers
    /\ ui'.items = ui.items
    /\ ui'.form = ui.form
    /\ ui'.currentServerHasChanges

\* The form as it stands makes a server.
ValidForm == createGeoserverServer(ui) # None

\* The step registers the server the form describes, under the name typed.
EditsSaved ==
    /\ ValidForm
    /\ ui.form.name \in DOMAIN ui'.servers
    /\ ui'.servers[ui.form.name] = createGeoserverServer(ui)

\* C36: while the current server has unsaved changes the add-server action
\* changes neither the registry, the list nor the current server; and the
\* selection of another item opens the question, after which the edits are
\* saved (Yes, valid values), discarded (No), or the previous selection is
\* restored with the current server, the registry and the flag unchanged
\* (Cancel, or Yes with invalid values).
C36_EditsNeverDropped ==
    [][ui.currentServerHasChanges
       => /\ ui'.op = "_addServer" => EditsKept /\ ui'.row = ui.row
          /\ ui'.op = "currentServerChanged"
             => /\ ui'.res # <<>>
                /\ \/ ui'.res[1] = "Yes" /\ EditsSaved /\ ~ui'.currentServerHasChanges
                   \/ ui'.res[1] = "No" /\ ui'.servers = ui.servers
                         /\ ~ui'.currentServerHasChanges
                   \/ /\ ui'.res[1] = "Cancel" \/ (ui'.res[1] = "Yes" /\ ~ValidForm)
                      /\ EditsKept /\ ui'.row = ui.row]_vars

====
